---- MODULE Spec2Model ----
(***************************************************************************)
(* GaiaNet chatbot backend (gaianet-chatbot/backend/app.py): the request   *)
(* validator and content sanitizer, the sensitive-data filter, the         *)
(* in-memory rate limiter, and the request lifecycle of /api/health,       *)
(* /api/chat and /api/chat/stream.                                         *)
(*                                                                         *)
(* Text is a sequence of one-character strings.  JSON values are tagged    *)
(* records [t |-> <type>, v |-> <value>].                                  *)
(***************************************************************************)
EXTENDS Integers, Sequences, FiniteSets, TLC

(***************************************************************************)
(* Characters and character classes (ASCII part of Python's re classes).   *)
(***************************************************************************)
LowerSeq ==
  << "a","b","c","d","e","f","g","h","i","j","k","l","m",
     "n","o","p","q","r","s","t","u","v","w","x","y","z" >>

UpperSeq ==
  << "A","B","C","D","E","F","G","H","I","J","K","L","M",
     "N","O","P","Q","R","S","T","U","V","W","X","Y","Z" >>

Range(f) == { f[i] : i \in DOMAIN f }

LowerLetters == Range(LowerSeq)

UpperLetters == Range(UpperSeq)

DigitChars == { "0","1","2","3","4","5","6","7","8","9" }

AlnumChars == LowerLetters \cup UpperLetters \cup DigitChars

\* \w
WordChars == AlnumChars \cup { "_" }

\* \s
SpaceChars == { " ", "\t", "\n", "\r" }

\* re.IGNORECASE compares case-folded characters
lower(c) ==
  IF c \in UpperLetters
    THEN LowerSeq[CHOOSE i \in DOMAIN UpperSeq : UpperSeq[i] = c]
    ELSE c

Max(S) == CHOOSE x \in S : \A y \in S : y <= x

Min(S) == CHOOSE x \in S : \A y \in S : x <= y

\* the literal lit occurs in s at position i; ci = case-insensitive
LitAt(s, i, lit, ci) ==
  /\ i >= 1
  /\ i + Len(lit) - 1 <= Len(s)
  /\ \A k \in 1..Len(lit) :
       IF ci THEN lower(s[i + k - 1]) = lower(lit[k]) ELSE s[i + k - 1] = lit[k]

\* number of consecutive characters of class cls in s from position i on
RunLen(s, i, cls) ==
  IF i > Len(s) \/ s[i] \notin cls
    THEN 0
    ELSE Max({ n \in 1..(Len(s) - i + 1) : \A k \in i..(i + n - 1) : s[k] \in cls })

IsWordAt(s, i) == i >= 1 /\ i <= Len(s) /\ s[i] \in WordChars

\* \b between position i-1 and position i
WordBoundary(s, i) == IsWordAt(s, i - 1) # IsWordAt(s, i)

AllIn(s, i, j, cls) == j <= Len(s) /\ \A k \in i..j : s[k] \in cls

(***************************************************************************)
(* RequestValidator.sanitize_content                                       *)
(***************************************************************************)
ScriptOpen == << "<","s","c","r","i","p","t" >>

ScriptClose == << "<","/","s","c","r","i","p","t",">" >>

JavascriptLit == << "j","a","v","a","s","c","r","i","p","t",":" >>

\* r"<script[^>]*>.*?</script>" with IGNORECASE | DOTALL, anchored at i:
\* the index of the last matched character, 0 when there is no match at i
ScriptMatchEnd(s, i) ==
  IF ~LitAt(s, i, ScriptOpen, TRUE)
    THEN 0
    ELSE LET gts == { g \in (i + 7)..Len(s) : s[g] = ">" }
         IN IF gts = {}
              THEN 0
              ELSE LET g == Min(gts)
                       cl == { c \in (g + 1)..Len(s) : LitAt(s, c, ScriptClose, TRUE) }
                   IN IF cl = {} THEN 0 ELSE Min(cl) + Len(ScriptClose) - 1

JavascriptMatchEnd(s, i) ==
  IF LitAt(s, i, JavascriptLit, TRUE) THEN i + Len(JavascriptLit) - 1 ELSE 0

\* variant: the character filter keeps "@" as well
SafeCharsWithAt ==
  WordChars \cup SpaceChars \cup { ".", ",", "!", "?", "-", "(", ")", "'", "\"", "@" }

\* characters kept by r"[^\w\s\.\,\!\?\-\(\)\'\"]+"
SafeChars == WordChars \cup SpaceChars \cup { ".", ",", "!", "?", "-", "(", ")", "'", "\"" }

RECURSIVE RemoveScripts(_, _)
RemoveScripts(s, i) ==
  IF i > Len(s)
    THEN << >>
    ELSE LET e == ScriptMatchEnd(s, i)
         IN IF e > 0 THEN RemoveScripts(s, e + 1)
                     ELSE << s[i] >> \o RemoveScripts(s, i + 1)

RECURSIVE RemoveJavascript(_, _)
RemoveJavascript(s, i) ==
  IF i > Len(s)
    THEN << >>
    ELSE LET e == JavascriptMatchEnd(s, i)
         IN IF e > 0 THEN RemoveJavascript(s, e + 1)
                     ELSE << s[i] >> \o RemoveJavascript(s, i + 1)

KeepAll(s) == s

\* re.sub(r"[^\w\s\.\,\!\?\-\(\)\'\"]+", "", content)
KeepSafe(s) == SelectSeq(s, LAMBDA c : c \in SafeChars)

\* str.strip()
Strip(s) ==
  LET ns == { k \in 1..Len(s) : s[k] \notin SpaceChars }
  IN IF ns = {} THEN << >> ELSE SubSeq(s, Min(ns), Max(ns))

sanitize_content(content) ==
  Strip(KeepSafe(RemoveJavascript(RemoveScripts(content, 1), 1)))

(***************************************************************************)
(* DataPrivacyFilter                                                       *)
(***************************************************************************)
\* self.patterns, in dict (insertion) order
PatternOrder ==
  << "credit_card", "ssn", "email", "phone", "api_key", "password", "token" >>

SepChars == { "-" } \cup SpaceChars

\* \d{a}-\d{b}-\d{c} framed by \b
DashedDigitsEnd(s, i, a, b, c) ==
  LET e == i + a + b + c + 1
  IN IF /\ e <= Len(s)
        /\ WordBoundary(s, i)
        /\ AllIn(s, i, i + a - 1, DigitChars)
        /\ s[i + a] = "-"
        /\ AllIn(s, i + a + 1, i + a + b, DigitChars)
        /\ s[i + a + b + 1] = "-"
        /\ AllIn(s, i + a + b + 2, e, DigitChars)
        /\ WordBoundary(s, e + 1)
       THEN e ELSE 0

\* one (?:\d{4}[-\s]?) group starting at p: the position after it, 0 if none
RECURSIVE CardGroups(_, _, _)
CardGroups(s, p, n) ==
  IF n = 0
    THEN p
    ELSE IF ~(p + 3 <= Len(s) /\ AllIn(s, p, p + 3, DigitChars))
           THEN 0
           ELSE IF p + 4 <= Len(s) /\ s[p + 4] \in SepChars
                  THEN CardGroups(s, p + 5, n - 1)
                  ELSE CardGroups(s, p + 4, n - 1)

CreditCardEndNoSeparators(s, i) ==
  IF WordBoundary(s, i) /\ AllIn(s, i, i + 15, DigitChars) /\ WordBoundary(s, i + 16)
    THEN i + 15 ELSE 0

\* r"\b(?:\d{4}[-\s]?){3}\d{4}\b"
CreditCardEnd(s, i) ==
  IF ~WordBoundary(s, i)
    THEN 0
    ELSE LET p == CardGroups(s, i, 3)
         IN IF /\ p > 0
               /\ p + 3 <= Len(s)
               /\ AllIn(s, p, p + 3, DigitChars)
               /\ WordBoundary(s, p + 4)
              THEN p + 3 ELSE 0

EmailLocalChars == AlnumChars \cup { ".", "_", "%", "+", "-" }

EmailDomainChars == AlnumChars \cup { ".", "-" }

\* [A-Z|a-z]
EmailTldChars == LowerLetters \cup UpperLetters \cup { "|" }

\* r"\b[A-Za-z0-9._%+-]+@[A-Za-z0-9.-]+\.[A-Z|a-z]{2,}\b": greedy, backtracking
\* first over the domain length, then over the top-level-domain length
EmailEnd(s, i) ==
  LET l == RunLen(s, i, EmailLocalChars)
      at == i + l
      dmax == RunLen(s, at + 1, EmailDomainChars)
      TldEnds(d) ==
        LET dot == at + d + 1
            tmax == RunLen(s, dot + 1, EmailTldChars)
        IN IF dot <= Len(s) /\ s[dot] = "."
             THEN { dot + t : t \in { u \in 2..tmax : WordBoundary(s, dot + u + 1) } }
             ELSE {}
      ds == { d \in 1..dmax : TldEnds(d) # {} }
  IN IF /\ WordBoundary(s, i)
        /\ l >= 1
        /\ at <= Len(s)
        /\ s[at] = "@"
        /\ ds # {}
       THEN Max(TldEnds(Max(ds))) ELSE 0

\* r"[A-Za-z0-9]{32,}"
ApiKeyMinLen == 32

ApiKeyEnd(s, i) ==
  LET n == RunLen(s, i, AlnumChars)
  IN IF n >= ApiKeyMinLen THEN i + n - 1 ELSE 0

KeywordSepChars == { ":", "=" } \cup SpaceChars

\* r"(?i)<word>[:\s=]+[^\s]+": the separator run is greedy and gives characters
\* back until a non-space character follows it
KeywordEnd(s, i, word) ==
  LET p == i + Len(word)
      run == RunLen(s, p, KeywordSepChars)
      ks == { k \in 1..run : p + k <= Len(s) /\ s[p + k] \notin SpaceChars }
  IN IF LitAt(s, i, word, TRUE) /\ ks # {}
       THEN LET q == p + Max(ks)
                nonspace == { n \in 1..(Len(s) - q + 1) :
                                \A j \in q..(q + n - 1) : s[j] \notin SpaceChars }
            IN q + Max(nonspace) - 1
       ELSE 0

PasswordLit == << "p","a","s","s","w","o","r","d" >>

TokenLit == << "t","o","k","e","n" >>

\* re match of self.patterns[kind] anchored at position i of s:
\* index of the last matched character, 0 when there is none
MatchEnd(kind, s, i) ==
  CASE kind = "credit_card" -> CreditCardEnd(s, i)
    [] kind = "ssn"         -> DashedDigitsEnd(s, i, 3, 2, 4)
    [] kind = "email"       -> EmailEnd(s, i)
    [] kind = "phone"       -> DashedDigitsEnd(s, i, 3, 3, 4)
    [] kind = "api_key"     -> ApiKeyEnd(s, i)
    [] kind = "password"    -> KeywordEnd(s, i, PasswordLit)
    [] kind = "token"       -> KeywordEnd(s, i, TokenLit)

\* re.finditer(pattern, text): the non-overlapping matches, left to right
RECURSIVE FindAll(_, _, _)
FindAll(kind, s, i) ==
  IF i > Len(s)
    THEN << >>
    ELSE LET e == MatchEnd(kind, s, i)
         IN IF e > 0
              THEN << << kind, SubSeq(s, i, e) >> >> \o FindAll(kind, s, e + 1)
              ELSE FindAll(kind, s, i + 1)

RECURSIVE DetectFrom(_, _)
DetectFrom(text, k) ==
  IF k > Len(PatternOrder)
    THEN << >>
    ELSE FindAll(PatternOrder[k], text, 1) \o DetectFrom(text, k + 1)

detect_sensitive_data(text) == DetectFrom(text, 1)

UpperKind(kind) ==
  CASE kind = "credit_card" -> << "C","R","E","D","I","T","_","C","A","R","D" >>
    [] kind = "ssn"         -> << "S","S","N" >>
    [] kind = "email"       -> << "E","M","A","I","L" >>
    [] kind = "phone"       -> << "P","H","O","N","E" >>
    [] kind = "api_key"     -> << "A","P","I","_","K","E","Y" >>
    [] kind = "password"    -> << "P","A","S","S","W","O","R","D" >>
    [] kind = "token"       -> << "T","O","K","E","N" >>

\* f"[REDACTED_{data_type.upper()}]"
Placeholder(kind) ==
  << "[","R","E","D","A","C","T","E","D","_" >> \o UpperKind(kind) \o << "]" >>

\* re.sub(pattern, placeholder, text)
RECURSIVE SubPattern(_, _, _)
SubPattern(kind, s, i) ==
  IF i > Len(s)
    THEN << >>
    ELSE LET e == MatchEnd(kind, s, i)
         IN IF e > 0
              THEN Placeholder(kind) \o SubPattern(kind, s, e + 1)
              ELSE << s[i] >> \o SubPattern(kind, s, i + 1)

\* the patterns applied last first
RECURSIVE RedactFromLastFirst(_, _)
RedactFromLastFirst(text, k) ==
  IF k > Len(PatternOrder)
    THEN text
    ELSE SubPattern(PatternOrder[k], RedactFromLastFirst(text, k + 1), 1)

RECURSIVE RedactFrom(_, _)
RedactFrom(text, k) ==
  IF k > Len(PatternOrder)
    THEN text
    ELSE RedactFrom(SubPattern(PatternOrder[k], text, 1), k + 1)

redact_sensitive_data(text) == RedactFrom(text, 1)

\* the value of `redacted` after the first j patterns of the loop
RECURSIVE RedactedAfter(_, _)
RedactedAfter(text, j) ==
  IF j = 0
    THEN text
    ELSE SubPattern(PatternOrder[j], RedactedAfter(text, j - 1), 1)

(***************************************************************************)
(* JSON values as Python sees them after request.get_json()                *)
(***************************************************************************)
PyStr(s) == [t |-> "str", v |-> s]

PyInt(n) == [t |-> "int", v |-> n]

\* a float, in tenths
PyFloat(tenths) == [t |-> "float", v |-> tenths]

PyBool(b) == [t |-> "bool", v |-> b]

None == [t |-> "null", v |-> 0]

PyList(seq) == [t |-> "list", v |-> seq]

\* d: a function from keys (strings) to values
PyDict(d) == [t |-> "dict", v |-> d]

EmptyDict == PyDict([k \in {} |-> None])

\* dict.get(key, default)
Get(d, key, default) == IF key \in DOMAIN d.v THEN d.v[key] ELSE default

\* returned value / raised exception
Ok(value) == [ok |-> TRUE, value |-> value]

Raise(exc, msg) == [ok |-> FALSE, exc |-> exc, msg |-> msg]

\* len(x): a TypeError for values without a length
HasLen(x) == x.t \in { "str", "list", "dict" }

PyLen(x) == IF x.t = "dict" THEN Cardinality(DOMAIN x.v) ELSE Len(x.v)

\* bool(x)
Truthy(x) ==
  CASE x.t = "null"  -> FALSE
    [] x.t = "bool"  -> x.v
    [] x.t \in { "int", "float" } -> x.v # 0
    [] OTHER -> PyLen(x) > 0

(***************************************************************************)
(* RequestValidator                                                        *)
(***************************************************************************)
\* MAX_MESSAGE_LENGTH from the environment (default 10000)
max_message_length == 24

max_messages == 100

RoleUser == << "u","s","e","r" >>

RoleAssistant == << "a","s","s","i","s","t","a","n","t" >>

RoleSystem == << "s","y","s","t","e","m" >>

allowed_roles == { RoleUser, RoleAssistant, RoleSystem }

ModelNameChars == AlnumChars \cup { "_", "-" }

\* re.match(r"^[a-zA-Z0-9_-]+$", model): $ also matches before a final newline
ModelNameMatches(s) ==
  LET n == RunLen(s, 1, ModelNameChars)
  IN /\ n >= 1
     /\ \/ n = Len(s)
        \/ n = Len(s) - 1 /\ s[Len(s)] = "\n"

MaxTokensLow == 1

MaxTokensHigh == 4096

\* temperature bounds 0 and 2, in tenths
TemperatureLowTenths == 0

TemperatureHighTenths == 20

ValidateMessageUnsanitized(msg) ==
  IF msg.t = "dict" /\ Get(msg, "role", None).t = "str"
       /\ Get(msg, "role", None).v \in allowed_roles
       /\ Get(msg, "content", PyStr(<< >>)).t = "str"
       /\ Len(Get(msg, "content", PyStr(<< >>)).v) <= max_message_length
    THEN Ok([role |-> msg.v["role"].v, content |-> Get(msg, "content", PyStr(<< >>)).v])
    ELSE Raise("ValueError", "Invalid message")

\* one iteration of the loop over messages
ValidateMessage(msg) ==
  IF msg.t # "dict"
    THEN Raise("ValueError", "Message must be a dictionary")
    ELSE LET role == Get(msg, "role", None)
             content == Get(msg, "content", PyStr(<< >>))
         IN IF role.t \in { "list", "dict" }
              THEN Raise("TypeError", "unhashable type")
              ELSE IF ~(role.t = "str" /\ role.v \in allowed_roles)
                THEN Raise("ValueError", "Invalid role")
                ELSE IF ~HasLen(content)
                  THEN Raise("TypeError", "object has no len()")
                  ELSE IF PyLen(content) > max_message_length
                    THEN Raise("ValueError", "Message too long")
                    ELSE IF content.t # "str"
                      THEN Raise("TypeError", "expected string or bytes-like object")
                      ELSE Ok([role |-> role.v, content |-> sanitize_content(content.v)])

ValidateMessagesByRule(ms, i) ==
  LET R(j) == ValidateMessage(ms[j])
      Failing(msgs) == { j \in i..Len(ms) : ~R(j).ok /\ R(j).msg \in msgs }
      First(S) == CHOOSE j \in S : \A k \in S : j <= k
  IN IF Failing({ "Message must be a dictionary" }) # {}
       THEN R(First(Failing({ "Message must be a dictionary" })))
       ELSE IF Failing({ "Invalid role", "unhashable type" }) # {}
         THEN R(First(Failing({ "Invalid role", "unhashable type" })))
         ELSE IF \E j \in i..Len(ms) : ~R(j).ok
           THEN R(First({ j \in i..Len(ms) : ~R(j).ok }))
           ELSE Ok([j \in 1..(Len(ms) - i + 1) |-> R(j + i - 1).value])

\* the loop over messages, from message i on: the exception of the first
\* message that raises one, else the validated messages in order
ValidateMessagesFrom(ms, i) ==
  LET R(j) == ValidateMessage(ms[j])
      raising == { j \in i..Len(ms) : ~R(j).ok }
  IN IF raising # {}
       THEN R(CHOOSE j \in raising : \A k \in raising : j <= k)
       ELSE Ok([j \in 1..(Len(ms) - i + 1) |-> R(j + i - 1).value])

MaxTokensValid(x) ==
  /\ x.t \in { "int", "bool" }
  /\ LET n == IF x.t = "bool" THEN (IF x.v THEN 1 ELSE 0) ELSE x.v
     IN ~(n < MaxTokensLow \/ n > MaxTokensHigh)

TemperatureValid(x) ==
  /\ x.t \in { "int", "float", "bool" }
  /\ LET tenths == CASE x.t = "bool" -> (IF x.v THEN 10 ELSE 0)
                     [] x.t = "int" -> 10 * x.v
                     [] OTHER -> x.v
     IN ~(tenths < TemperatureLowTenths \/ tenths > TemperatureHighTenths)

\* request_data: a Dict.  The result is Ok([model, messages, kwargs]) or the
\* exception raised.
validate_chat_request(request_data) ==
  LET model == Get(request_data, "model", PyStr(<< >>))
      messages == Get(request_data, "messages", PyList(<< >>))
  IN IF model.t # "str"
       THEN Raise("TypeError", "expected string or bytes-like object")
       ELSE IF ~ModelNameMatches(model.v)
         THEN Raise("ValueError", "Invalid model name format")
         ELSE IF messages.t # "list" \/ Len(messages.v) > max_messages
           THEN Raise("ValueError", "Invalid messages format or too many messages")
           ELSE LET vm == ValidateMessagesFrom(messages.v, 1)
                IN IF ~vm.ok
                     THEN vm
                     ELSE IF /\ "max_tokens" \in DOMAIN request_data.v
                             /\ ~MaxTokensValid(request_data.v["max_tokens"])
                       THEN Raise("ValueError", "Invalid max_tokens value")
                       ELSE IF /\ "temperature" \in DOMAIN request_data.v
                               /\ ~TemperatureValid(request_data.v["temperature"])
                         THEN Raise("ValueError", "Invalid temperature value")
                         ELSE Ok([model |-> model.v,
                                  messages |-> vm.value,
                                  kwargs |-> [k \in DOMAIN request_data.v
                                                     \cap { "max_tokens", "temperature" }
                                                |-> request_data.v[k]]])

\* DataPrivacyFilter.validate_request_privacy: the indices of the messages with
\* findings, each with the kinds found
validate_request_privacy(messages) ==
  LET found == { i \in DOMAIN messages :
                   detect_sensitive_data(messages[i].content) # << >> }
      F(i) == detect_sensitive_data(messages[i].content)
  IN [i \in found |-> [k \in DOMAIN F(i) |-> F(i)[k][1]]]

(***************************************************************************)
(* Bounds of the model                                                     *)
(***************************************************************************)
\* the clock advances in steps of TimeStep while it is below MaxTime
MaxTime == 2

\* check_rate_limit is not called for a client with more recorded timestamps
MaxEntries == 2

\* a run of equal check_rate_limit calls is followed for this many calls
MaxRun == 4

(***************************************************************************)
(* State                                                                   *)
(***************************************************************************)
VARIABLES
  gaia_client,             \* TRUE when SecureGaiaClient() was constructed
  privacy_filter_enabled,  \* ENABLE_DATA_PRIVACY_FILTER is "true"
  rate_limit_per_hour,     \* int(RATE_LIMIT_PER_HOUR)
  rate_limits,             \* SecurityMonitor.rate_limits: client -> timestamps
  blocked_ips,             \* SecurityMonitor.blocked_ips
  clock,                   \* time.time()
  call,                    \* the last direct call of a SecurityMonitor method
  run,                     \* the watched client's run of equal check_rate_limit calls
  tripped,                 \* TRUE once that run went one call past its limit
  threads,                 \* the request handler threads inside security_checks
  admitted,                \* per client: the times of the requests the gate admitted
  req,                     \* the HTTP request being served, and its response so far
  fn                       \* a direct call of a validator or filter method: argument and result

vars ==
  << gaia_client, privacy_filter_enabled, rate_limit_per_hour, rate_limits,
     blocked_ips, clock, call, run, tripped, threads, admitted, req, fn >>

envVars == << gaia_client, privacy_filter_enabled, rate_limit_per_hour >>

directVars == << call, run, tripped >>

concVars == << threads, admitted >>

monitorVars == << rate_limits, blocked_ips >>

ClientIds == { "10.0.0.1", "10.0.0.2" }

\* the client whose calls the history variables run and tripped follow
Watched == "10.0.0.1"

(***************************************************************************)
(* SecurityMonitor                                                         *)
(***************************************************************************)
\* the default of the limit parameter, which check_rate_limit replaces by the
\* environment's RATE_LIMIT_PER_HOUR
DefaultLimit == 100

DefaultWindow == 3600

\* lines 159-160
EffectiveLimit(limit, env) == IF limit = DefaultLimit THEN env ELSE limit

\* lines 165-169: the timestamps still inside the window
Prune(times, now, window) == SelectSeq(times, LAMBDA t : now - t < window)

\* variant: nobody is ever reported as blocked
is_blocked_nobody(blocked, ip) == FALSE

is_blocked(blocked, ip) == ip \in blocked

block_ip(blocked, ip) == blocked \cup { ip }

\* variant: an admitted request lifts the client's block (a cooldown)
check_rate_limit_unblocking(rl, blocked, env, ip, limit, window, now) ==
  LET lim == EffectiveLimit(limit, env)
      pruned == Prune(rl[ip], now, window)
  IN IF Len(pruned) >= lim
       THEN [rate_limits |-> [rl EXCEPT ![ip] = pruned],
             blocked_ips |-> block_ip(blocked, ip),
             ret |-> FALSE]
       ELSE [rate_limits |-> [rl EXCEPT ![ip] = Append(pruned, now)],
             blocked_ips |-> blocked \ { ip },
             ret |-> TRUE]

\* variant: an admitted request is not recorded
check_rate_limit_not_recording(rl, blocked, env, ip, limit, window, now) ==
  LET lim == EffectiveLimit(limit, env)
      pruned == Prune(rl[ip], now, window)
  IN [rate_limits |-> [rl EXCEPT ![ip] = pruned],
      blocked_ips |-> IF Len(pruned) >= lim THEN block_ip(blocked, ip) ELSE blocked,
      ret |-> Len(pruned) < lim]

\* variant: the rejected request is recorded as well
check_rate_limit_recording_rejected(rl, blocked, env, ip, limit, window, now) ==
  LET lim == EffectiveLimit(limit, env)
      pruned == Prune(rl[ip], now, window)
  IN [rate_limits |-> [rl EXCEPT ![ip] = Append(pruned, now)],
      blocked_ips |-> IF Len(pruned) >= lim THEN block_ip(blocked, ip) ELSE blocked,
      ret |-> Len(pruned) < lim]

\* variant: a blocked client is refused at once
check_rate_limit_refusing_blocked(rl, blocked, env, ip, limit, window, now) ==
  LET lim == EffectiveLimit(limit, env)
      pruned == Prune(rl[ip], now, window)
  IN IF is_blocked(blocked, ip)
       THEN [rate_limits |-> rl, blocked_ips |-> blocked, ret |-> FALSE]
       ELSE IF Len(pruned) >= lim
              THEN [rate_limits |-> [rl EXCEPT ![ip] = pruned],
                    blocked_ips |-> block_ip(blocked, ip),
                    ret |-> FALSE]
              ELSE [rate_limits |-> [rl EXCEPT ![ip] = Append(pruned, now)],
                    blocked_ips |-> blocked,
                    ret |-> TRUE]

\* the monitor's state after the call, and the value returned
check_rate_limit(rl, blocked, env, ip, limit, window, now) ==
  LET lim == EffectiveLimit(limit, env)
      pruned == Prune(rl[ip], now, window)
  IN IF Len(pruned) >= lim
       THEN [rate_limits |-> [rl EXCEPT ![ip] = pruned],
             blocked_ips |-> block_ip(blocked, ip),
             ret |-> FALSE]
       ELSE [rate_limits |-> [rl EXCEPT ![ip] = Append(pruned, now)],
             blocked_ips |-> blocked,
             ret |-> TRUE]

Threads == { 1, 2 }

\* no request is being served
IdleReq ==
  [pc |-> "idle", kind |-> "none", input |-> 0,
   remote_addr |-> "", x_real_ip |-> "", ip |-> "", gate |-> "", status |-> 0, error |-> "",
   headers |-> {}, health |-> "", content |-> << >>, events |-> << >>,
   privacy_input |-> << >>, sent |-> << >>,
   validate_calls |-> 0, upstream_calls |-> 0, upstream_raised |-> FALSE,
   upstream_exc |-> "",
   received |-> << >>, ended |-> ""]

\* no validator or filter method has been called directly
NoFn == [op |-> "none", arg |-> << >>, done |-> FALSE, out |-> << >>]

IdleThread == [pc |-> "idle", ip |-> "", now |-> 0, limit |-> 0,
               pruned |-> << >>, result |-> "none"]

(***************************************************************************)
(* SpecMonitor: a SecurityMonitor instance called directly, one call at a  *)
(* time (as the unit tests do), while time passes.                         *)
(***************************************************************************)
\* limit and window arguments of the direct calls
Limits == { 1, 2, DefaultLimit }

Windows == { 2, 3 }

EnvLimits == { 1, 2, DefaultLimit }

NoCall == [op |-> "none", ip |-> "", ret |-> FALSE]

NoRun == [live |-> FALSE, limit |-> 0, window |-> 0, start |-> 0, n |-> 0]

InitMonitor ==
  /\ gaia_client = FALSE
  /\ privacy_filter_enabled = TRUE
  /\ rate_limit_per_hour \in EnvLimits
  /\ rate_limits = [c \in ClientIds |-> << >>]
  /\ blocked_ips = {}
  /\ clock = 0
  /\ call = NoCall
  /\ run = NoRun
  /\ tripped = FALSE
  /\ threads = [th \in Threads |-> IdleThread]
  /\ admitted = [c \in ClientIds |-> << >>]
  /\ req = IdleReq
  /\ fn = NoFn

\* the run of consecutive check_rate_limit(ip, limit, window) calls that began
\* when ip had no recorded requests and has stayed within the window since
NextRun(r, recorded, limit, window, now) ==
  IF recorded = << >>
    THEN [live |-> TRUE, limit |-> limit, window |-> window, start |-> now, n |-> 1]
    ELSE IF /\ r.live /\ r.limit = limit /\ r.window = window
            /\ now - r.start < window /\ r.n < MaxRun
           THEN [r EXCEPT !.n = r.n + 1]
           ELSE NoRun

CheckRateLimit(ip, limit, window) ==
  /\ Len(rate_limits[ip]) <= MaxEntries
  /\ LET r == check_rate_limit(rate_limits, blocked_ips, rate_limit_per_hour,
                               ip, limit, window, clock)
         nr == IF ip = Watched
                 THEN NextRun(run, rate_limits[ip], limit, window, clock)
                 ELSE run
     IN /\ rate_limits' = r.rate_limits
        /\ blocked_ips' = r.blocked_ips
        /\ call' = [op |-> "check_rate_limit", ip |-> ip, ret |-> r.ret]
        /\ run' = nr
        /\ tripped' = (tripped \/ (ip = Watched /\ nr.live /\ nr.n = nr.limit + 1))
  /\ UNCHANGED << envVars, fn, clock, concVars, req >>

IsBlocked(ip) ==
  /\ call' = [NoCall EXCEPT !.op = "is_blocked", !.ip = ip,
                            !.ret = is_blocked(blocked_ips, ip)]
  /\ UNCHANGED << envVars, fn, rate_limits, blocked_ips, clock, run, tripped, concVars, req >>

BlockIp(ip) ==
  /\ blocked_ips' = block_ip(blocked_ips, ip)
  /\ call' = [NoCall EXCEPT !.op = "block_ip", !.ip = ip]
  /\ UNCHANGED << envVars, fn, rate_limits, clock, run, tripped, concVars, req >>

\* time passes between calls
Tick ==
  /\ clock < MaxTime
  /\ clock' = clock + 1
  /\ UNCHANGED << envVars, fn, rate_limits, blocked_ips, directVars, concVars, req >>

NextMonitor ==
  \/ \E ip \in ClientIds, limit \in Limits, window \in Windows :
       CheckRateLimit(ip, limit, window)
  \/ \E ip \in ClientIds : IsBlocked(ip)
  \/ \E ip \in ClientIds : BlockIp(ip)
  \/ Tick

SpecMonitor == InitMonitor /\ [][NextMonitor]_vars

(***************************************************************************)
(* SpecLimiter: one client calling check_rate_limit again and again with   *)
(* the same limit and window (as test_rate_limit_blocks_excessive_requests *)
(* does), while time passes.  run holds the two arguments.                 *)
(***************************************************************************)
LimiterMaxTime == 2

LimiterWindows == { 1, 2 }

\* the client that calls
LimiterClientIds == { Watched }

\* RATE_LIMIT_PER_HOUR: a small value, the default, and one above it
LimiterEnvLimits == { 1, DefaultLimit, DefaultLimit + 1 }

InitLimiter ==
  /\ gaia_client = FALSE
  /\ privacy_filter_enabled = TRUE
  /\ rate_limit_per_hour \in LimiterEnvLimits
  /\ rate_limits = [c \in ClientIds |-> << >>]
  /\ blocked_ips = {}
  /\ clock = 0
  /\ call = NoCall
  /\ \E limit \in Limits, window \in LimiterWindows :
       run = [NoRun EXCEPT !.live = TRUE, !.limit = limit, !.window = window]
  /\ tripped = FALSE
  /\ threads = [th \in Threads |-> IdleThread]
  /\ admitted = [c \in ClientIds |-> << >>]
  /\ req = IdleReq
  /\ fn = NoFn

LimiterCall(ip) ==
  /\ LET r == check_rate_limit(rate_limits, blocked_ips, rate_limit_per_hour,
                               ip, run.limit, run.window, clock)
     IN /\ rate_limits' = r.rate_limits
        /\ blocked_ips' = r.blocked_ips
        /\ call' = [op |-> "check_rate_limit", ip |-> ip, ret |-> r.ret]
  /\ UNCHANGED << envVars, fn, clock, run, tripped, concVars, req >>

LimiterTick ==
  /\ clock < LimiterMaxTime
  /\ clock' = clock + 1
  /\ UNCHANGED << envVars, fn, rate_limits, blocked_ips, directVars, concVars, req >>

NextLimiter ==
  \/ \E ip \in LimiterClientIds : LimiterCall(ip)
  \/ LimiterTick

SpecLimiter == InitLimiter /\ [][NextLimiter]_vars

(***************************************************************************)
(* SpecConc: request handler threads run security_checks concurrently on   *)
(* the process-wide SecurityMonitor (the server runs each request in its   *)
(* own thread; the monitor takes no lock).  A thread can be preempted      *)
(* between any two of the steps below.                                     *)
(***************************************************************************)
\* the clock of the served process advances by GateTimeStep up to MaxGateTime
GateTimeStep == 1800

MaxGateTime == 3600

GateEnvLimits == { 1, 2 }

\* no further request of a client starts once this many were admitted
MaxAdmitted == 3

\* the concurrent requests come from one client
ConcClientIds == { Watched }

RECURSIVE SortedInsert(_, _)
SortedInsert(seq, x) ==
  IF seq = << >> \/ x <= Head(seq)
    THEN << x >> \o seq
    ELSE << Head(seq) >> \o SortedInsert(Tail(seq), x)

InitConc ==
  /\ gaia_client = FALSE
  /\ privacy_filter_enabled = TRUE
  /\ rate_limit_per_hour \in GateEnvLimits
  /\ rate_limits = [c \in ClientIds |-> << >>]
  /\ blocked_ips = {}
  /\ clock = 0
  /\ call = NoCall
  /\ run = NoRun
  /\ tripped = FALSE
  /\ threads = [th \in Threads |-> IdleThread]
  /\ admitted = [c \in ClientIds |-> << >>]
  /\ req = IdleReq
  /\ fn = NoFn

\* line 243: a request of client ip enters security_checks
ThreadStart(th, ip) ==
  /\ threads[th].pc = "idle"
  /\ Len(admitted[ip]) < MaxAdmitted
  /\ threads' = [threads EXCEPT ![th] = [IdleThread EXCEPT !.pc = "is_blocked", !.ip = ip]]
  /\ UNCHANGED << envVars, fn, rate_limits, blocked_ips, clock, directVars, admitted, req >>

\* lines 246-247
ThreadIsBlocked(th) ==
  /\ threads[th].pc = "is_blocked"
  /\ threads' = [threads EXCEPT ![th] =
                   IF is_blocked(blocked_ips, threads[th].ip)
                     THEN [@ EXCEPT !.pc = "done", !.result = "403"]
                     ELSE [@ EXCEPT !.pc = "read_clock"]]
  /\ UNCHANGED << envVars, fn, rate_limits, blocked_ips, clock, directVars, admitted, req >>

\* lines 159-162: check_rate_limit(client_ip) with the default arguments
ThreadReadClock(th) ==
  /\ threads[th].pc = "read_clock"
  /\ threads' = [threads EXCEPT ![th] =
                   [@ EXCEPT !.pc = "prune_read", !.now = clock,
                             !.limit = EffectiveLimit(DefaultLimit, rate_limit_per_hour)]]
  /\ UNCHANGED << envVars, fn, rate_limits, blocked_ips, clock, directVars, admitted, req >>

\* lines 166-169: the list comprehension reads the client's list
ThreadPruneRead(th) ==
  /\ threads[th].pc = "prune_read"
  /\ threads' = [threads EXCEPT ![th] =
                   [@ EXCEPT !.pc = "prune_write",
                             !.pruned = Prune(rate_limits[threads[th].ip],
                                              threads[th].now, DefaultWindow)]]
  /\ UNCHANGED << envVars, fn, rate_limits, blocked_ips, clock, directVars, admitted, req >>

\* line 165: the pruned list replaces the client's list
ThreadPruneWrite(th) ==
  /\ threads[th].pc = "prune_write"
  /\ rate_limits' = [rate_limits EXCEPT ![threads[th].ip] = threads[th].pruned]
  /\ threads' = [threads EXCEPT ![th] = [@ EXCEPT !.pc = "check", !.pruned = << >>]]
  /\ UNCHANGED << envVars, fn, blocked_ips, clock, directVars, admitted, req >>

\* lines 172-174, and line 251 when the limit is reached
ThreadCheck(th) ==
  /\ threads[th].pc = "check"
  /\ IF Len(rate_limits[threads[th].ip]) >= threads[th].limit
       THEN /\ blocked_ips' = block_ip(blocked_ips, threads[th].ip)
            /\ threads' = [threads EXCEPT ![th] = [@ EXCEPT !.pc = "done", !.result = "429"]]
       ELSE /\ blocked_ips' = blocked_ips
            /\ threads' = [threads EXCEPT ![th] = [@ EXCEPT !.pc = "append"]]
  /\ UNCHANGED << envVars, fn, rate_limits, clock, directVars, admitted, req >>

\* lines 177-178: the request is recorded and admitted
ThreadAppend(th) ==
  /\ threads[th].pc = "append"
  /\ rate_limits' = [rate_limits EXCEPT ![threads[th].ip] = Append(@, threads[th].now)]
  /\ admitted' = [admitted EXCEPT ![threads[th].ip] = SortedInsert(@, threads[th].now)]
  /\ threads' = [threads EXCEPT ![th] = [@ EXCEPT !.pc = "done", !.result = "admitted"]]
  /\ UNCHANGED << envVars, fn, blocked_ips, clock, directVars, req >>

\* the request is answered and the thread takes the next one
ThreadFinish(th) ==
  /\ threads[th].pc = "done"
  /\ threads' = [threads EXCEPT ![th] = IdleThread]
  /\ UNCHANGED << envVars, fn, rate_limits, blocked_ips, clock, directVars, admitted, req >>

ConcTick ==
  /\ clock < MaxGateTime
  /\ clock' = clock + GateTimeStep
  /\ UNCHANGED << envVars, fn, rate_limits, blocked_ips, directVars, concVars, req >>

NextConc ==
  \/ \E th \in Threads, ip \in ConcClientIds : ThreadStart(th, ip)
  \/ \E th \in Threads : ThreadIsBlocked(th)
  \/ \E th \in Threads : ThreadReadClock(th)
  \/ \E th \in Threads : ThreadPruneRead(th)
  \/ \E th \in Threads : ThreadPruneWrite(th)
  \/ \E th \in Threads : ThreadCheck(th)
  \/ \E th \in Threads : ThreadAppend(th)
  \/ \E th \in Threads : ThreadFinish(th)
  \/ ConcTick

SpecConc == InitConc /\ [][NextConc]_vars

(***************************************************************************)
(* Spec: the HTTP application.  Requests are served one at a time: the     *)
(* before_request gate, then the handler of the endpoint; the upstream     *)
(* provider (the OpenAI-compatible client) answers, raises or streams as   *)
(* it likes.                                                               *)
(***************************************************************************)
\* chunks a streamed upstream answer can carry before it ends or fails
MaxChunks == 2

\* GAIANET_MODEL (default "default")
GaiaModel == << "d","e","f","a","u","l","t" >>

TextHello == << "H","e","l","l","o" >>

TextHi == << "h","i" >>

TextSsn == << "m","y"," ","s","s","n"," ","1","2","3","-","4","5","-","6","7","8","9" >>

TextPassword == << "p","a","s","s","w","o","r","d",":"," ","h","u","n","t","e","r","2" >>

TextEmail == << "m","a","i","l"," ","a","@","b",".","c","o" >>

TextBadModel == << "b","a","d"," ","m","o","d","e","l" >>

TextTooLong == [i \in 1..(max_message_length + 1) |-> "a"]

ChunkSsnHead == << "1","2","3","-","4","5","-" >>

ChunkSsnTail == << "6","7","8","9" >>

UserMessage(content) == PyDict([role |-> PyStr(RoleUser), content |-> content])

\* bodies of POST /api/chat: json_ok is FALSE when request.get_json() raises
ChatBodies ==
  << [json_ok |-> FALSE, data |-> None],
     [json_ok |-> TRUE, data |-> EmptyDict],
     [json_ok |-> TRUE, data |-> PyList(<< PyStr(TextHello) >>)],
     [json_ok |-> TRUE, data |-> PyDict([message |-> PyStr(TextHello)])],
     [json_ok |-> TRUE, data |-> PyDict([message |-> PyStr(TextSsn)])],
     [json_ok |-> TRUE, data |-> PyDict([message |-> PyStr(TextEmail)])],
     [json_ok |-> TRUE, data |-> PyDict([message |-> PyInt(5)])],
     [json_ok |-> TRUE, data |-> PyDict([message |-> PyStr(TextHello),
                                         model |-> PyStr(TextBadModel)])],
     [json_ok |-> TRUE, data |-> PyDict([message |-> PyStr(TextHello),
                                         model |-> PyInt(5)])],
     [json_ok |-> TRUE,
      data |-> PyDict([messages |-> PyList(<< PyDict([role |-> PyStr(<< "h","a","c","k","e","r" >>),
                                                      content |-> PyStr(TextHi)]) >>)])],
     [json_ok |-> TRUE,
      data |-> PyDict([messages |-> PyList(<< UserMessage(PyStr(TextHi)),
                                              UserMessage(PyStr(TextPassword)) >>),
                       max_tokens |-> PyInt(16)])],
     [json_ok |-> TRUE,
      data |-> PyDict([messages |-> PyList(<< UserMessage(PyStr(TextHi)) >>),
                       max_tokens |-> PyInt(5000)])] >>

\* query strings of GET /api/chat/stream: None for an absent parameter
StreamQueries ==
  << [message |-> None, model |-> None],
     [message |-> PyStr(<< >>), model |-> None],
     [message |-> PyStr(TextHello), model |-> None],
     [message |-> PyStr(TextSsn), model |-> None],
     [message |-> PyStr(TextHello), model |-> PyStr(TextBadModel)],
     [message |-> PyStr(TextTooLong), model |-> None] >>

\* what the upstream provider does with a (non-streamed) completion call:
\* a response whose first choice has the given content, a response without
\* choices, or an exception of the given class
UpstreamExceptions ==
  { "BadRequestError", "NotFoundError", "InternalServerError", "APIConnectionError" }

\* str(e) of an exception raised by the upstream client
UpstreamErrorText == "upstream: provider detail"

UpstreamAnswers ==
  { [kind |-> "response", choices |-> 1, content |-> c] :
      c \in { None, PyStr(TextHello), PyStr(TextSsn) } }
  \cup { [kind |-> "response", choices |-> 0, content |-> None] }
  \cup { [kind |-> "raise", choices |-> 0, content |-> PyStr(<< >>), cls |-> x] :
           x \in UpstreamExceptions }

\* delta.content of a streamed chunk
ChunkContents ==
  { None, PyStr(<< >>), PyStr(ChunkSsnHead), PyStr(ChunkSsnTail), PyStr(TextSsn) }

RemoteAddrs == { "10.0.0.1" }

\* the X-Real-IP header; "" when the request has none
RealIpHeaders == { "", "10.0.0.2" }

\* (gaia_client, privacy_filter_enabled) of the process
Configurations == { << TRUE, TRUE >>, << TRUE, FALSE >>, << FALSE, TRUE >> }

Init ==
  /\ \E cfg \in Configurations :
       /\ gaia_client = cfg[1]
       /\ privacy_filter_enabled = cfg[2]
  /\ rate_limit_per_hour \in GateEnvLimits
  /\ rate_limits = [c \in ClientIds |-> << >>]
  /\ blocked_ips = {}
  /\ clock = 0
  /\ call = NoCall
  /\ run = NoRun
  /\ tripped = FALSE
  /\ threads = [th \in Threads |-> IdleThread]
  /\ admitted = [c \in ClientIds |-> << >>]
  /\ req = IdleReq
  /\ fn = NoFn

SecurityHeaders ==
  { << "Strict-Transport-Security", "max-age=31536000; includeSubDomains" >>,
    << "X-Frame-Options", "DENY" >>,
    << "X-Content-Type-Options", "nosniff" >>,
    << "Referrer-Policy", "strict-origin-when-cross-origin" >> }

no_security_headers(response) == response

\* after_request: response.headers[name] = value for the four headers
security_headers(response) ==
  [response EXCEPT !.headers =
     { h \in @ : \A n \in SecurityHeaders : h[1] # n[1] } \cup SecurityHeaders]

\* Flask runs the after_request functions on the response the gate or the
\* view function has returned (a streamed response gets them before its body
\* is generated); r.status = 0 while there is no response yet
AfterRequest(r) == IF r.status # 0 THEN security_headers(r) ELSE r

\* jsonify({"error": msg}), status
ErrorResponse(r, status, msg) == [r EXCEPT !.pc = "done", !.status = status, !.error = msg]

ContentEvent(text) == [type |-> "content", content |-> text, error |-> ""]

DoneEvent == [type |-> "done", content |-> << >>, error |-> ""]

ErrorEvent(msg) == [type |-> "error", content |-> << >>, error |-> msg]

EndStreamSilently(r, ev) == [r EXCEPT !.pc = "done"]

\* the generator yields ev and returns
EndStream(r, ev) == [r EXCEPT !.pc = "done", !.events = Append(@, ev)]

\* line 243
\* variant: the X-Real-IP header is ignored
ClientIpRemoteAddr(remote_addr, x_real_ip) == remote_addr

\* request.environ.get("HTTP_X_REAL_IP", request.remote_addr); "" = no header
ClientIp(remote_addr, x_real_ip) == IF x_real_ip # "" THEN x_real_ip ELSE remote_addr

\* security_checks (before_request), for a request that arrives while no other
\* is being served
SecurityChecks(kind, input, remote_addr, x_real_ip) ==
  /\ req.pc \in { "idle", "done" }
  /\ LET ip == ClientIp(remote_addr, x_real_ip)
         r0 == [IdleReq EXCEPT !.kind = kind, !.input = input, !.ip = ip,
                              !.remote_addr = remote_addr, !.x_real_ip = x_real_ip]
     IN IF is_blocked(blocked_ips, ip)
          THEN /\ req' = AfterRequest(ErrorResponse([r0 EXCEPT !.gate = "blocked"],
                                                    403, "Access denied"))
               /\ UNCHANGED monitorVars
          ELSE LET r == check_rate_limit(rate_limits, blocked_ips, rate_limit_per_hour,
                                         ip, DefaultLimit, DefaultWindow, clock)
               IN /\ rate_limits' = r.rate_limits
                  /\ blocked_ips' = r.blocked_ips
                  /\ req' = IF r.ret
                              THEN [r0 EXCEPT !.pc = "handler", !.gate = "admitted"]
                              ELSE AfterRequest(ErrorResponse([r0 EXCEPT !.gate = "limited"],
                                                              429, "Rate limit exceeded"))
  /\ UNCHANGED << envVars, fn, clock, directVars, concVars >>

AlwaysConfigured(client) == TRUE

\* `if not gaia_client` (lines 276, 298, 391): gaia_client is None unless
\* GAIANET_API_KEY is set
ClientConfigured(client) == client

HealthResponseUnavailable(r, client, up) ==
  IF ClientConfigured(client) /\ up.kind # "raise"
    THEN [r EXCEPT !.pc = "done", !.status = 200, !.health = "connected",
                   !.upstream_calls = @ + 1]
    ELSE [r EXCEPT !.pc = "done", !.status = 503, !.health = "error"]

\* health_check: the response; up is what the test completion call does
HealthResponse(r, client, up) ==
  IF ~ClientConfigured(client)
    THEN [r EXCEPT !.pc = "done", !.status = 200, !.health = "not_configured"]
    ELSE IF up.kind = "raise"
      THEN [r EXCEPT !.pc = "done", !.status = 200, !.health = "error",
                     !.error = UpstreamErrorText, !.upstream_calls = @ + 1,
                     !.upstream_raised = TRUE]
      ELSE [r EXCEPT !.pc = "done", !.status = 200, !.health = "connected",
                     !.upstream_calls = @ + 1]

HealthCheck(up) ==
  /\ req.pc = "handler" /\ req.kind = "health"
  /\ req' = AfterRequest(HealthResponse(req, gaia_client, up))
  /\ UNCHANGED << envVars, fn, monitorVars, clock, directVars, concVars >>

\* lines 306-321: the request handed to the validator
BuildChatRequest(data) ==
  LET messages == IF "message" \in DOMAIN data.v
                    THEN PyList(<< UserMessage(data.v["message"]) >>)
                    ELSE Get(data, "messages", PyList(<< >>))
      base == [model |-> Get(data, "model", PyStr(GaiaModel)), messages |-> messages]
      opt == DOMAIN data.v \cap { "max_tokens", "temperature" }
  IN PyDict([k \in { "model", "messages" } \cup opt |->
               IF k \in opt THEN data.v[k] ELSE base[k]])

NoPrivacyViolations(enabled, messages) == {}

\* lines 327-332: the violations that abort the request
PrivacyViolations(enabled, messages) ==
  IF enabled THEN DOMAIN validate_request_privacy(messages) ELSE {}

\* lines 366-372: the response for an exception raised inside chat_completion
ExceptionResponse(r, e) ==
  CASE e.exc = "ValueError"   -> ErrorResponse(r, 400, e.msg)
    [] e.exc = "RuntimeError" -> ErrorResponse(r, 500, e.msg)
    [] OTHER                  -> ErrorResponse(r, 500, "Internal server error")

\* chat_completion up to the upstream call (lines 297-343)
ChatPrelude(r, client, privacy, body) ==
  IF ~ClientConfigured(client)
    THEN ErrorResponse(r, 500, "GaiaNet not configured")
    ELSE IF ~body.json_ok
      THEN ExceptionResponse(r, Raise("BadRequest", "Failed to decode JSON object"))
      ELSE IF ~Truthy(body.data)
        THEN ErrorResponse(r, 400, "Invalid JSON")
        ELSE IF body.data.t # "dict"
          THEN ExceptionResponse(r, Raise("AttributeError", "object has no attribute 'get'"))
          ELSE LET v == validate_chat_request(BuildChatRequest(body.data))
                   rv == [r EXCEPT !.validate_calls = @ + 1]
                   rp == IF ~v.ok \/ ~privacy THEN rv
                         ELSE [rv EXCEPT !.privacy_input = v.value.messages]
               IN IF ~v.ok
                    THEN ExceptionResponse(rv, v)
                    ELSE IF PrivacyViolations(privacy, v.value.messages) # {}
                      THEN ErrorResponse(rp, 400, "Privacy violation detected")
                      ELSE [rp EXCEPT !.pc = "upstream", !.upstream_calls = @ + 1,
                                      !.sent = v.value.messages]

ChatCompletion ==
  /\ req.pc = "handler" /\ req.kind = "chat"
  /\ req' = AfterRequest(ChatPrelude(req, gaia_client, privacy_filter_enabled,
                                      ChatBodies[req.input]))
  /\ UNCHANGED << envVars, fn, monitorVars, clock, directVars, concVars >>

MapUpstreamExceptionToRuntimeError(cls) ==
  IF cls = "InternalServerError"
    THEN Raise("RuntimeError", "Service temporarily unavailable")
    ELSE Raise("RuntimeError", "Request failed")

\* SecureGaiaClient.chat_completion, lines 211-222: the exception raised for an
\* exception of the upstream client
MapUpstreamException(cls) ==
  CASE cls = "BadRequestError"     -> Raise("ValueError", "Invalid request format")
    [] cls = "NotFoundError"       -> Raise("ValueError", "Model not available")
    [] cls = "InternalServerError" -> Raise("RuntimeError", "Service temporarily unavailable")
    [] OTHER                       -> Raise("RuntimeError", "Request failed")

\* lines 355-356, 415-419
RedactIfEnabled(enabled, text) == IF enabled THEN redact_sensitive_data(text) ELSE text

\* chat_completion after the upstream call (lines 345-372)
ChatEpilogue(r, privacy, up) ==
  IF up.kind = "raise"
    THEN ExceptionResponse([r EXCEPT !.upstream_raised = TRUE, !.upstream_exc = up.cls],
                           MapUpstreamException(up.cls))
    ELSE IF up.choices = 0
      THEN ExceptionResponse(r, Raise("IndexError", "list index out of range"))
      ELSE LET content == IF up.content.t = "null" THEN << >> ELSE up.content.v
           IN [r EXCEPT !.pc = "done", !.status = 200,
                        !.content = RedactIfEnabled(privacy, content)]

ChatUpstreamReturn(up) ==
  /\ req.pc = "upstream" /\ req.kind = "chat"
  /\ req' = AfterRequest(ChatEpilogue(req, privacy_filter_enabled, up))
  /\ UNCHANGED << envVars, fn, monitorVars, clock, directVars, concVars >>

\* chat_stream and generate() up to the first chunk (lines 379-408); up is what
\* the upstream create(stream=True) call does
StreamPrelude(r, client, query, up) ==
  LET r200 == [r EXCEPT !.status = 200]
  IN IF ~Truthy(query.message)
       THEN EndStream(r200, ErrorEvent("Message parameter required"))
       ELSE IF ~ClientConfigured(client)
         THEN EndStream(r200, ErrorEvent("GaiaNet not configured"))
         ELSE LET model == IF query.model.t = "null" THEN PyStr(GaiaModel) ELSE query.model
                  v == validate_chat_request(
                         PyDict([model |-> model,
                                 messages |-> PyList(<< UserMessage(query.message) >>)]))
                  rv == [r200 EXCEPT !.validate_calls = @ + 1]
              IN IF ~v.ok
                   THEN EndStream(rv, ErrorEvent(v.msg))
                   ELSE LET rc == [rv EXCEPT !.upstream_calls = @ + 1,
                                             !.sent = v.value.messages]
                        IN IF up.kind = "raise"
                             THEN EndStream([rc EXCEPT !.upstream_raised = TRUE,
                                                       !.ended = "raised"],
                                            ErrorEvent(UpstreamErrorText))
                             ELSE [rc EXCEPT !.pc = "streaming"]

ChatStream(up) ==
  /\ req.pc = "handler" /\ req.kind = "stream"
  /\ req' = AfterRequest(StreamPrelude(req, gaia_client, StreamQueries[req.input], up))
  /\ UNCHANGED << envVars, fn, monitorVars, clock, directVars, concVars >>

StreamChunkStepPrepend(r, privacy, content) ==
  LET rr == [r EXCEPT !.received = Append(@, content)]
  IN IF content.t = "null"
       THEN rr
       ELSE [rr EXCEPT !.events = << ContentEvent(RedactIfEnabled(privacy, content.v)) >> \o @]

StreamChunkStepNonEmpty(r, privacy, content) ==
  LET rr == [r EXCEPT !.received = Append(@, content)]
  IN IF ~Truthy(content)
       THEN rr
       ELSE [rr EXCEPT !.events = Append(@, ContentEvent(RedactIfEnabled(privacy, content.v)))]

\* one iteration of `for chunk in stream` (lines 410-421) for a chunk whose
\* first choice has delta.content = content
StreamChunkStep(r, privacy, content) ==
  LET rr == [r EXCEPT !.received = Append(@, content)]
  IN IF content.t = "null"
       THEN rr
       ELSE [rr EXCEPT !.events = Append(@, ContentEvent(RedactIfEnabled(privacy, content.v)))]

StreamChunk(content) ==
  /\ req.pc = "streaming"
  /\ Len(req.received) < MaxChunks
  /\ req' = StreamChunkStep(req, privacy_filter_enabled, content)
  /\ UNCHANGED << envVars, fn, monitorVars, clock, directVars, concVars >>

\* the upstream stream is exhausted (line 424)
StreamEnd ==
  /\ req.pc = "streaming"
  /\ req' = EndStream([req EXCEPT !.ended = "normal"], DoneEvent)
  /\ UNCHANGED << envVars, fn, monitorVars, clock, directVars, concVars >>

\* iterating the upstream stream raises, or a chunk has no choices (lines 426-428)
StreamRaise(upstream) ==
  /\ req.pc = "streaming"
  /\ req' = IF upstream
              THEN EndStream([req EXCEPT !.ended = "raised", !.upstream_raised = TRUE],
                             ErrorEvent(UpstreamErrorText))
              ELSE EndStream([req EXCEPT !.ended = "raised"],
                             ErrorEvent("list index out of range"))
  /\ UNCHANGED << envVars, fn, monitorVars, clock, directVars, concVars >>

HttpTick ==
  /\ clock < MaxGateTime
  /\ clock' = clock + GateTimeStep
  /\ UNCHANGED << envVars, fn, monitorVars, directVars, concVars, req >>

Next ==
  \/ \E a \in RemoteAddrs, h \in RealIpHeaders : SecurityChecks("health", 0, a, h)
  \/ \E a \in RemoteAddrs, h \in RealIpHeaders, i \in DOMAIN ChatBodies :
       SecurityChecks("chat", i, a, h)
  \/ \E a \in RemoteAddrs, h \in RealIpHeaders, i \in DOMAIN StreamQueries :
       SecurityChecks("stream", i, a, h)
  \/ \E up \in UpstreamAnswers : HealthCheck(up)
  \/ ChatCompletion
  \/ \E up \in UpstreamAnswers : ChatUpstreamReturn(up)
  \/ \E up \in UpstreamAnswers : ChatStream(up)
  \/ \E c \in ChunkContents : StreamChunk(c)
  \/ StreamEnd
  \/ \E upstream \in BOOLEAN : StreamRaise(upstream)
  \/ HttpTick

Spec == Init /\ [][Next]_vars

(***************************************************************************)
(* SpecValidator: RequestValidator.validate_chat_request called directly   *)
(* (as the unit tests do) on one request.                                  *)
(***************************************************************************)
\* a key the request does not have
Absent == [t |-> "absent", v |-> 0]

\* the dict with the given keys, without those that are Absent
MakeDict(fields) ==
  PyDict([k \in { x \in DOMAIN fields : fields[x] # Absent } |-> fields[k]])

TextMaxLength == [i \in 1..max_message_length |-> "b"]

RoleHacker == << "h","a","c","k","e","r" >>

ModelInputs ==
  { Absent, PyStr(GaiaModel), PyStr(<< >>), PyStr(TextBadModel),
    PyStr(GaiaModel \o << "\n" >>), PyInt(5) }

MessageInputs ==
  { UserMessage(PyStr(TextHi)),
    PyDict([role |-> PyStr(RoleAssistant), content |-> PyStr(TextMaxLength)]),
    PyDict([role |-> PyStr(RoleSystem)]),
    PyDict([role |-> PyStr(RoleHacker), content |-> PyStr(TextHi)]),
    PyDict([role |-> PyStr(RoleHacker), content |-> PyStr(TextTooLong)]),
    UserMessage(PyStr(TextTooLong)),
    UserMessage(PyInt(5)),
    PyStr(TextHi) }

\* messages: absent, not a list, 100 and 101 messages, and every list of up to
\* two of the messages above
MessagesInputs ==
  { Absent, PyStr(TextHi),
    PyList([i \in 1..max_messages |-> UserMessage(PyStr(TextHi))]),
    PyList([i \in 1..(max_messages + 1) |-> UserMessage(PyStr(TextHi))]),
    PyList([i \in 1..(max_messages + 1) |-> PyStr(TextHi)]),
    PyList(<< >>) }
  \cup { PyList(<< a >>) : a \in MessageInputs }
  \cup { PyList(<< a, b >>) : a, b \in MessageInputs }

MaxTokensInputs ==
  { PyInt(1), PyInt(4096), PyInt(0), PyInt(4097), PyInt(5000), PyInt(16),
    PyFloat(160), PyStr(TextHi), PyBool(TRUE) }

\* floats are in tenths
TemperatureInputs ==
  { PyInt(0), PyInt(2), PyInt(3), PyInt(-1), PyFloat(0), PyFloat(7), PyFloat(20),
    PyFloat(21), PyFloat(-1), PyStr(TextHi), PyBool(TRUE) }

\* (max_tokens, temperature)
OptionInputs ==
  { << Absent, Absent >>, << PyInt(5000), PyFloat(21) >>, << PyInt(16), PyFloat(7) >> }
  \cup { << a, Absent >> : a \in MaxTokensInputs }
  \cup { << Absent, b >> : b \in TemperatureInputs }

ValidatorInputs ==
  { MakeDict([model |-> m, messages |-> ms, max_tokens |-> o[1], temperature |-> o[2]]) :
      m \in ModelInputs, ms \in MessagesInputs, o \in OptionInputs }

InitValidator ==
  /\ gaia_client = FALSE
  /\ privacy_filter_enabled = TRUE
  /\ rate_limit_per_hour = DefaultLimit
  /\ rate_limits = [c \in ClientIds |-> << >>]
  /\ blocked_ips = {}
  /\ clock = 0
  /\ call = NoCall
  /\ run = NoRun
  /\ tripped = FALSE
  /\ threads = [th \in Threads |-> IdleThread]
  /\ admitted = [c \in ClientIds |-> << >>]
  /\ req = IdleReq
  /\ \E r \in ValidatorInputs :
       fn = [op |-> "validate_chat_request", arg |-> r, done |-> FALSE, out |-> << >>]

fnFrame == << envVars, monitorVars, clock, directVars, concVars, req >>

ValidateChatRequest ==
  /\ fn.op = "validate_chat_request" /\ ~fn.done
  /\ fn' = [fn EXCEPT !.done = TRUE, !.out = validate_chat_request(fn.arg)]
  /\ UNCHANGED fnFrame

NextValidator == ValidateChatRequest

SpecValidator == InitValidator /\ [][NextValidator]_vars

(***************************************************************************)
(* SpecSanitizer: RequestValidator.sanitize_content called directly on one *)
(* text.                                                                   *)
(***************************************************************************)
\* the pieces the input texts are made of
SanitizerTokens ==
  { << "<","s","c","r","i","p","t",">" >>,
    << "<","/","s","c","r","i","p","t",">" >>,
    << "<","s","c","r","i","p","t",">","<","/","s","c","r","i","p","t",">" >>,
    << "<","S","C","R","I","P","T"," ","s","r","c","=","x",">" >>,
    << "<","s","c","r" >>,
    << "i","p","t",">" >>,
    << "j","a","v","a","s","c","r","i","p","t",":" >>,
    << "J","a","v","a","S","c","r","i","p","t",":" >>,
    << "j","a","v","a" >>,
    << "s","c","r","i","p","t",":" >>,
    << "a","l","e","r","t","(","'","x","s","s","'",")" >>,
    << " " >>,
    << "a" >> }

\* texts of the unit tests
TextClickJavascript == << "C","l","i","c","k"," ","j","a","v","a","s","c","r","i","p","t",":","a","l","e","r","t","(","'","x","s","s","'",")"," ","h","e","r","e" >>

TextHelloScript == << "H","e","l","l","o"," ","<","s","c","r","i","p","t",">","a","l","e","r","t","(","'","x","s","s","'",")","<","/","s","c","r","i","p","t",">"," ","w","o","r","l","d" >>

\* every text of one, two or three pieces, and the texts of the unit tests
SanitizerInputs ==
  SanitizerTokens
  \cup { a \o b : a, b \in SanitizerTokens }
  \cup { a \o b \o c : a, b, c \in SanitizerTokens }
  \cup { TextClickJavascript, TextHelloScript }

InitSanitizer ==
  /\ gaia_client = FALSE
  /\ privacy_filter_enabled = TRUE
  /\ rate_limit_per_hour = DefaultLimit
  /\ rate_limits = [c \in ClientIds |-> << >>]
  /\ blocked_ips = {}
  /\ clock = 0
  /\ call = NoCall
  /\ run = NoRun
  /\ tripped = FALSE
  /\ threads = [th \in Threads |-> IdleThread]
  /\ admitted = [c \in ClientIds |-> << >>]
  /\ req = IdleReq
  /\ \E text \in SanitizerInputs :
       fn = [op |-> "sanitize_content", arg |-> text, done |-> FALSE, out |-> << >>]

SanitizeContent ==
  /\ fn.op = "sanitize_content" /\ ~fn.done
  /\ fn' = [fn EXCEPT !.done = TRUE, !.out = sanitize_content(fn.arg)]
  /\ UNCHANGED fnFrame

NextSanitizer == SanitizeContent

SpecSanitizer == InitSanitizer /\ [][NextSanitizer]_vars

(***************************************************************************)
(* SpecFilter: DataPrivacyFilter.detect_sensitive_data and                 *)
(* redact_sensitive_data called directly on one text.                      *)
(***************************************************************************)
\* sixteen digits grouped in fours, with and without separators
CardTexts ==
  { << "4","5","3","2","-","1","2","3","4","-","5","6","7","8","-","9","0","1","2" >>,
    << "4","5","3","2"," ","1","2","3","4"," ","5","6","7","8"," ","9","0","1","2" >>,
    << "4","5","3","2","1","2","3","4","5","6","7","8","9","0","1","2" >>,
    << "4","5","3","2","-","1","2","3","4"," ","5","6","7","8","9","0","1","2" >> }

\* what stands between and around them
FillerTexts ==
  { << " " >>, << "a" >>, << ","," " >>, << "p","a","y"," " >>, << "-" >>, << "_" >> }

\* the texts are made of one, two or three of these pieces
FilterPieces ==
  { << a >> : a \in CardTexts \cup FillerTexts }
  \cup { << a, b >> : a, b \in CardTexts \cup FillerTexts }
  \cup { << a, b, c >> : a, b, c \in CardTexts \cup FillerTexts }

RECURSIVE Concat(_)
Concat(pieces) == IF pieces = << >> THEN << >> ELSE Head(pieces) \o Concat(Tail(pieces))

\* texts of the other kinds, and the words that introduce a secret
SsnText == << "1","2","3","-","4","5","-","6","7","8","9" >>

PhoneText == << "1","2","3","-","4","5","6","-","7","8","9","0" >>

EmailText == << "a","@","b",".","c","o" >>

ApiKeyText == << "k","3","y","k","3","y","k","3","y","k","3","y","k","3","y","k","3","y","k","3","y","k","3","y","k","3","y","k","3","y","k","3" >>

PasswordIntro == << "p","a","s","s","w","o","r","d",":"," " >>

TokenIntro == << "t","o","k","e","n","=" >>

RedactPieces ==
  { SsnText, PhoneText, EmailText, ApiKeyText, PasswordIntro, TokenIntro,
    << "4","5","3","2","-","1","2","3","4","-","5","6","7","8","-","9","0","1","2" >>,
    << "x" >>, << " " >> }

\* one, two or three of them in a row
RedactTexts ==
  RedactPieces
  \cup { a \o b : a, b \in RedactPieces }
  \cup { a \o b \o c : a, b, c \in RedactPieces }

FilterInputs == { Concat(ps) : ps \in FilterPieces } \cup RedactTexts

FilterOps == { "detect_sensitive_data", "redact_sensitive_data" }

InitFilter ==
  /\ gaia_client = FALSE
  /\ privacy_filter_enabled = TRUE
  /\ rate_limit_per_hour = DefaultLimit
  /\ rate_limits = [c \in ClientIds |-> << >>]
  /\ blocked_ips = {}
  /\ clock = 0
  /\ call = NoCall
  /\ run = NoRun
  /\ tripped = FALSE
  /\ threads = [th \in Threads |-> IdleThread]
  /\ admitted = [c \in ClientIds |-> << >>]
  /\ req = IdleReq
  /\ \E text \in FilterInputs, op \in FilterOps :
       fn = [op |-> op, arg |-> text, done |-> FALSE, out |-> << >>]

DetectSensitiveData ==
  /\ fn.op = "detect_sensitive_data" /\ ~fn.done
  /\ fn' = [fn EXCEPT !.done = TRUE, !.out = detect_sensitive_data(fn.arg)]
  /\ UNCHANGED fnFrame

RedactSensitiveData ==
  /\ fn.op = "redact_sensitive_data" /\ ~fn.done
  /\ fn' = [fn EXCEPT !.done = TRUE, !.out = redact_sensitive_data(fn.arg)]
  /\ UNCHANGED fnFrame

NextFilter == DetectSensitiveData \/ RedactSensitiveData

SpecFilter == InitFilter /\ [][NextFilter]_vars

(***************************************************************************)
(* Claims about concurrent requests (SpecConc)                             *)
(***************************************************************************)
\* the requests of client c admitted in the window that ends at time t
AdmittedInWindow(c, t) ==
  { k \in DOMAIN admitted[c] : admitted[c][k] <= t /\ t - admitted[c][k] < DefaultWindow }

\* C3: under every interleaving of concurrent check_rate_limit calls, the
\* number of requests of a client admitted within one window never exceeds the
\* limit (with one slot left, at most one of two concurrent requests is admitted).
C3_AdmittedWithinLimit ==
  \A c \in ClientIds : \A k \in DOMAIN admitted[c] :
    Cardinality(AdmittedInWindow(c, admitted[c][k])) <= rate_limit_per_hour

(***************************************************************************)
(* Claims about the rate limiter called directly (SpecMonitor)             *)
(***************************************************************************)
\* C1: starting from a client with no recorded requests, `limit` consecutive
\* calls check_rate_limit(id, limit, window) made within the window each return
\* true; the next call within the window returns false, and is_blocked(id) is
\* true from that call on.
C1_LimitCallsThenBlocked ==
  /\ (call.op = "check_rate_limit" /\ call.ip = Watched /\ run.live) =>
       /\ run.n <= run.limit => call.ret
       /\ run.n = run.limit + 1 => ~call.ret /\ is_blocked(blocked_ips, Watched)
  /\ tripped => is_blocked(blocked_ips, Watched)
  /\ (tripped /\ call.op = "is_blocked" /\ call.ip = Watched) => call.ret

\* The same statement for the runs whose limit argument check_rate_limit uses as
\* given (it is not the default 100, or RATE_LIMIT_PER_HOUR is 100 as well).
C1_WhenLimitIsUsedAsGiven ==
  /\ ( /\ call.op = "check_rate_limit" /\ call.ip = Watched /\ run.live
       /\ EffectiveLimit(run.limit, rate_limit_per_hour) = run.limit ) =>
       /\ run.n <= run.limit => call.ret
       /\ run.n = run.limit + 1 => ~call.ret /\ is_blocked(blocked_ips, Watched)
  /\ tripped => is_blocked(blocked_ips, Watched)

\* C2: the block set is append-only: no call of check_rate_limit, block_ip or
\* is_blocked, for any client, and no passage of time removes a client from it.
C2_BlockSetAppendOnly == [][blocked_ips \subseteq blocked_ips']_vars

\* a blocked client whose window has elapsed is admitted by a later
\* check_rate_limit call and is still blocked
C2_Witness ==
  /\ Watched \in blocked_ips
  /\ call.op = "check_rate_limit" /\ call.ip = Watched /\ call.ret
  /\ clock >= Min(Windows)


(***************************************************************************)
(* Claims about the HTTP application (Spec)                                *)
(***************************************************************************)
\* the body of the current POST /api/chat request is a non-empty JSON object
ChatBodyIsObject(i) ==
  /\ ChatBodies[i].json_ok
  /\ Truthy(ChatBodies[i].data)
  /\ ChatBodies[i].data.t = "dict"

\* the request fails validation, or a validated message has a finding
FailsChecks(request, privacy) ==
  LET v == validate_chat_request(request)
  IN \/ ~v.ok
     \/ privacy /\ DOMAIN validate_request_privacy(v.value.messages) # {}

StreamRequest(i) ==
  LET q == StreamQueries[i]
  IN PyDict([model |-> IF q.model.t = "null" THEN PyStr(GaiaModel) ELSE q.model,
             messages |-> PyList(<< UserMessage(q.message) >>)])

IsErrorResponse(r) == r.pc = "done" /\ r.status \in { 400, 403, 429, 500 } /\ r.error # ""

\* C4: a POST /api/chat request that fails validation, or that (with privacy
\* filtering enabled) has a validated message with a sensitive-data finding,
\* never has an upstream call made for it, and its answer is an error.
C4_FailFastBeforeUpstream ==
  (req.kind = "chat" /\ ChatBodyIsObject(req.input)
     /\ FailsChecks(BuildChatRequest(ChatBodies[req.input].data), privacy_filter_enabled))
    => /\ req.upstream_calls = 0
       /\ req.sent = << >>
       /\ req.pc # "upstream"
       /\ req.pc = "done" => IsErrorResponse(req)

\* a validated request whose message carries a social security number was
\* refused by the privacy check
C4_Witness ==
  /\ req.kind = "chat" /\ req.pc = "done" /\ req.gate = "admitted"
  /\ gaia_client /\ privacy_filter_enabled
  /\ ChatBodyIsObject(req.input)
  /\ validate_chat_request(BuildChatRequest(ChatBodies[req.input].data)).ok
  /\ req.validate_calls = 1
  /\ req.status = 400 /\ req.error = "Privacy violation detected"
  /\ req.upstream_calls = 0

\* C5: with privacy filtering enabled, a GET /api/chat/stream request whose
\* validated message has a sensitive-data finding has no upstream call made
\* for it and its stream ends with an error event.
C5_StreamPrivacyCheckBeforeUpstream ==
  (req.kind = "stream" /\ privacy_filter_enabled /\ req.gate = "admitted"
     /\ Truthy(StreamQueries[req.input].message)
     /\ validate_chat_request(StreamRequest(req.input)).ok
     /\ FailsChecks(StreamRequest(req.input), TRUE))
    => /\ req.upstream_calls = 0
       /\ req.pc # "streaming"
       /\ req.pc = "done" => /\ req.events # << >>
                             /\ req.events[Len(req.events)].type = "error"

\* the texts SecureGaiaClient.chat_completion substitutes for upstream errors
FixedMessages ==
  { "Invalid request format", "Model not available",
    "Service temporarily unavailable", "Request failed" }

\* C6: when the upstream call of a synchronous or streamed completion raises,
\* the error text delivered is one of the fixed messages, and the text of the
\* upstream exception appears in no response body and no stream event.
C6_UpstreamErrorTextNeverLeaked ==
  (req.kind \in { "chat", "stream" } /\ req.pc = "done" /\ req.upstream_raised)
    => /\ req.error # UpstreamErrorText
       /\ \A i \in DOMAIN req.events : req.events[i].error # UpstreamErrorText
       /\ req.kind = "chat" => req.error \in FixedMessages
       /\ req.kind = "stream" => req.events[Len(req.events)].error \in FixedMessages

\* the half of C6 that concerns POST /api/chat
C6_SyncUpstreamErrorIsFixedMessage ==
  (req.kind = "chat" /\ req.pc = "done" /\ req.upstream_raised)
    => req.error \in FixedMessages /\ req.status \in { 400, 500 }

IsStreamedResponse(r) == r.kind = "stream" /\ r.gate = "admitted" /\ r.pc \in { "streaming", "done" }

AllContent(events) == \A i \in DOMAIN events : events[i].type = "content"

\* the events of a stream: content events, then (once it has ended) exactly one
\* terminal event
StreamShape(r) ==
  IF r.pc = "streaming"
    THEN AllContent(r.events)
    ELSE /\ Len(r.events) >= 1
         /\ AllContent(SubSeq(r.events, 1, Len(r.events) - 1))
         /\ LET last == r.events[Len(r.events)]
            IN /\ last.type \in { "done", "error" }
               /\ last.type = "done" <=> r.ended = "normal"
               /\ r.ended = "raised" => last.type = "error" /\ last.error # ""

\* C7: every streamed response is zero or more content events followed by
\* exactly one terminal event, the done sentinel when the upstream stream ended
\* normally and an error event otherwise; nothing follows the terminal event
\* and the upstream call is made at most once per request (no retry).
C7_StreamEndsWithOneTerminalEvent ==
  /\ [](IsStreamedResponse(req) => StreamShape(req) /\ req.upstream_calls <= 1)
  /\ [][(IsStreamedResponse(req) /\ req.pc = "done") => req'.pc \in { "done", "handler" } /\
          (req'.events = req.events \/ req'.events = << >>)]_vars

\* a stream that failed after two content events: they are followed by the one
\* error event
C7_Witness ==
  /\ IsStreamedResponse(req) /\ req.pc = "done" /\ req.ended = "raised"
  /\ Len(req.events) = 3
  /\ req.events[1].type = "content" /\ req.events[2].type = "content"
  /\ req.events[3].type = "error"
  /\ req.upstream_calls = 1

RECURSIVE EventsFor(_, _)
\* the content events the received chunks call for: one per chunk that carries
\* text, in order, each redacted on its own
EventsFor(chunks, privacy) ==
  IF chunks = << >>
    THEN << >>
    ELSE IF Head(chunks).t = "null"
      THEN EventsFor(Tail(chunks), privacy)
      ELSE << ContentEvent(IF privacy THEN redact_sensitive_data(Head(chunks).v)
                                      ELSE Head(chunks).v) >>
             \o EventsFor(Tail(chunks), privacy)

ContentEvents(events) == SelectSeq(events, LAMBDA e : e.type = "content")

\* C8: the content events of a stream are, in the order the chunks were
\* received, one event per chunk that carries text, each with that chunk's
\* text redacted on its own when filtering is enabled.
C8_ChunksInOrderRedactedEach ==
  IsStreamedResponse(req)
    => ContentEvents(req.events) = EventsFor(req.received, privacy_filter_enabled)

\* a social security number split over two chunks goes out in two events,
\* unredacted, though the joined text would have been redacted
C8_Witness ==
  /\ IsStreamedResponse(req) /\ req.pc = "done" /\ privacy_filter_enabled
  /\ req.received = << PyStr(ChunkSsnHead), PyStr(ChunkSsnTail) >>
  /\ ContentEvents(req.events) = << ContentEvent(ChunkSsnHead), ContentEvent(ChunkSsnTail) >>
  /\ redact_sensitive_data(ChunkSsnHead \o ChunkSsnTail) # ChunkSsnHead \o ChunkSsnTail
  /\ redact_sensitive_data(TextSsn) # TextSsn

NumberOf(chunks, P(_)) == Cardinality({ i \in DOMAIN chunks : P(chunks[i]) })

\* C9 (as stated): the stream has a content event only for chunks whose delta
\* text is non-empty; a chunk with absent or empty text produces none.
C9_EventOnlyForNonEmptyText ==
  IsStreamedResponse(req)
    => Len(ContentEvents(req.events)) = NumberOf(req.received, Truthy)

\* C9 (as the code has it): the stream has a content event exactly for the
\* chunks whose delta text is present (not None); a chunk with absent text
\* produces no event, a chunk with empty text produces an event with empty
\* content.
C9_EventForEveryPresentText ==
  /\ [](IsStreamedResponse(req)
          => Len(ContentEvents(req.events))
               = NumberOf(req.received, LAMBDA c : c.t # "null"))
  /\ [][(req.pc = "streaming" /\ Len(req'.received) = Len(req.received) + 1)
          => LET c == req'.received[Len(req'.received)]
             IN /\ c.t = "null" => req'.events = req.events
                /\ c.t # "null" => Len(req'.events) = Len(req.events) + 1]_vars

\* a chunk with absent text and a chunk with empty text were received: only the
\* second has an event, with empty content
C9_Witness ==
  /\ IsStreamedResponse(req) /\ req.pc = "done" /\ req.ended = "normal"
  /\ req.received = << None, PyStr(<< >>) >>
  /\ req.events = << ContentEvent(<< >>), DoneEvent >>

\* the answer to a request when no upstream client is configured
NotConfiguredAnswer(r) ==
  /\ r.validate_calls = 0
  /\ r.upstream_calls = 0
  /\ r.pc = "done"
  /\ r.kind = "chat" => r.status = 500 /\ r.error = "GaiaNet not configured"
  /\ r.kind = "stream" => Len(r.events) = 1 /\ r.events[1].type = "error"

\* C10 (as stated): when no upstream client is configured, POST /api/chat
\* returns 500 "GaiaNet not configured" whatever the body is and the streamed
\* endpoint ends with a single error event, without validation or upstream call.
C10_NotConfiguredAnswer ==
  (~gaia_client /\ req.kind \in { "chat", "stream" } /\ req.pc # "idle")
    => IF req.pc = "done" THEN NotConfiguredAnswer(req)
                          ELSE req.pc = "handler"

\* C10 (as the code has it): the same, for a request the before_request gate
\* admits; a request from a blocked or rate-limited address is answered 403 or
\* 429 by the gate before the handler runs.
C10_NotConfiguredAnswerWhenAdmitted ==
  (~gaia_client /\ req.kind \in { "chat", "stream" } /\ req.pc # "idle")
    => /\ req.validate_calls = 0 /\ req.upstream_calls = 0
       /\ req.pc \in { "handler", "done" }
       /\ (req.pc = "done" /\ req.gate = "admitted") => NotConfiguredAnswer(req)
       /\ (req.pc = "done" /\ req.gate # "admitted")
            => req.status \in { 403, 429 } /\ req.events = << >>

\* a well-formed chat request was answered 500 "GaiaNet not configured"
C10_Witness ==
  /\ ~gaia_client /\ req.kind = "chat" /\ req.pc = "done" /\ req.gate = "admitted"
  /\ ChatBodyIsObject(req.input)
  /\ validate_chat_request(BuildChatRequest(ChatBodies[req.input].data)).ok
  /\ req.status = 500 /\ req.error = "GaiaNet not configured"


HealthStates == { "connected", "error", "not_configured" }

\* C11 (as stated): GET /api/health always returns HTTP 200, whatever the
\* upstream connectivity and whatever the history of requests of the client.
C11_HealthAlways200 ==
  (req.kind = "health" /\ req.pc = "done") => req.status = 200 /\ req.health \in HealthStates

\* C11 (as the code has it): GET /api/health returns HTTP 200 with its status
\* fields whatever the upstream connectivity, for a request the before_request
\* gate admits; a request of a blocked or rate-limited client is answered 403
\* or 429 by the gate.
C11_HealthAlways200WhenAdmitted ==
  (req.kind = "health" /\ req.pc = "done")
    => /\ req.gate = "admitted" => /\ req.status = 200
                                   /\ req.health \in HealthStates
                                   /\ req.health = "not_configured" <=> ~gaia_client
                                   /\ req.health = "error" <=> req.upstream_raised
       /\ req.gate # "admitted" => req.status \in { 403, 429 } /\ req.health = ""

\* the upstream raised during the health probe of a client with earlier
\* requests on record: the answer is 200 with gaianet_status "error"
C11_Witness ==
  /\ req.kind = "health" /\ req.pc = "done" /\ req.gate = "admitted"
  /\ gaia_client /\ req.upstream_raised
  /\ req.status = 200 /\ req.health = "error"
  /\ \E c \in ClientIds : Len(rate_limits[c]) >= 2

\* C12: every HTTP response carries the four fixed security headers: the 403
\* and 429 answers of the gate, the error answers of the chat endpoint and the
\* streamed responses included.
C12_SecurityHeadersOnEveryResponse ==
  req.status # 0
    => /\ << "Strict-Transport-Security", "max-age=31536000; includeSubDomains" >> \in req.headers
       /\ << "X-Frame-Options", "DENY" >> \in req.headers
       /\ << "X-Content-Type-Options", "nosniff" >> \in req.headers
       /\ << "Referrer-Policy", "strict-origin-when-cross-origin" >> \in req.headers
       /\ Cardinality(req.headers) = 4

\* a request refused by the gate with 429 carries the headers
C12_Witness ==
  /\ req.pc = "done" /\ req.gate = "limited" /\ req.status = 429
  /\ << "X-Frame-Options", "DENY" >> \in req.headers
  /\ Cardinality(req.headers) = 4

\* the body of the current POST /api/chat request is malformed, oversized or
\* disallowed: not JSON, not an object, or refused by the validator
BadChatInput(i) ==
  \/ ~ChatBodies[i].json_ok
  \/ ~Truthy(ChatBodies[i].data)
  \/ ChatBodies[i].data.t # "dict"
  \/ ~validate_chat_request(BuildChatRequest(ChatBodies[i].data)).ok

\* C15: a POST /api/chat request whose input is malformed, oversized or
\* disallowed (a wrongly typed model, message content or body included) is
\* answered with HTTP 400, never with HTTP 500.
C15_BadInputAnswered400 ==
  (req.kind = "chat" /\ req.pc = "done" /\ req.gate = "admitted" /\ gaia_client
     /\ BadChatInput(req.input))
    => req.status = 400

\* the part of C15 the code keeps: input the validator refuses with its own
\* ValueError is answered 400 with the validator's message
C15_ValueErrorAnswered400 ==
  (req.kind = "chat" /\ req.pc = "done" /\ req.gate = "admitted" /\ gaia_client
     /\ ChatBodyIsObject(req.input)
     /\ ~validate_chat_request(BuildChatRequest(ChatBodies[req.input].data)).ok
     /\ validate_chat_request(BuildChatRequest(ChatBodies[req.input].data)).exc = "ValueError")
    => req.status = 400

\* C16 (as stated): in synchronous completion only a malformed-request answer
\* of the upstream is answered 400; not-found, server-side failure and any
\* other upstream exception are answered 500.
C16_OnlyBadRequestIs400 ==
  (req.kind = "chat" /\ req.pc = "done" /\ req.upstream_exc # "")
    => IF req.upstream_exc = "BadRequestError" THEN req.status = 400 ELSE req.status = 500

\* C16 (as the code has it): a malformed-request answer and a not-found answer
\* of the upstream are both answered 400 ("Invalid request format", "Model not
\* available"); a server-side failure ("Service temporarily unavailable") and
\* any other upstream exception ("Request failed") are answered 500.
C16_BadRequestAndNotFoundAre400 ==
  (req.kind = "chat" /\ req.pc = "done" /\ req.upstream_exc # "")
    => CASE req.upstream_exc = "BadRequestError"
              -> req.status = 400 /\ req.error = "Invalid request format"
         [] req.upstream_exc = "NotFoundError"
              -> req.status = 400 /\ req.error = "Model not available"
         [] req.upstream_exc = "InternalServerError"
              -> req.status = 500 /\ req.error = "Service temporarily unavailable"
         [] OTHER -> req.status = 500 /\ req.error = "Request failed"

\* the upstream answered not-found and the caller got 400
C16_Witness ==
  /\ req.kind = "chat" /\ req.pc = "done" /\ req.upstream_exc = "NotFoundError"
  /\ req.upstream_calls = 1
  /\ req.status = 400 /\ req.error = "Model not available"

\* the messages of a request as the validator must return them: same length,
\* order and roles, each content sanitized
SanitizedMessages(request) ==
  LET ms == Get(request, "messages", PyList(<< >>)).v
  IN [i \in DOMAIN ms |->
        [role |-> ms[i].v["role"].v,
         content |-> sanitize_content(Get(ms[i], "content", PyStr(<< >>)).v)]]

\* the request the handler of the current request hands to the validator
CurrentRequest ==
  IF req.kind = "chat" THEN BuildChatRequest(ChatBodies[req.input].data)
                       ELSE StreamRequest(req.input)

\* C17: the validated messages have the length, order and roles of the input
\* messages and every content is sanitize(input content); what reaches the
\* privacy check and the upstream provider is this sanitized list, and the
\* input request is left as it was.
C17_OnlySanitizedMessagesGoOn ==
  /\ []((req.kind \in { "chat", "stream" } /\ req.validate_calls = 1)
          => LET v == validate_chat_request(CurrentRequest)
             IN /\ v.ok => v.value.messages = SanitizedMessages(CurrentRequest)
                /\ req.sent # << >> => v.ok /\ req.sent = SanitizedMessages(CurrentRequest)
                /\ req.privacy_input # << >>
                     => v.ok /\ req.privacy_input = SanitizedMessages(CurrentRequest)
                /\ req.upstream_calls > 0 => req.sent # << >>)
  /\ [][req.pc = "handler" => req'.input = req.input /\ req'.kind = req.kind]_vars

\* a message whose sanitized content differs from what the client sent went
\* through the privacy check and on to the upstream provider
C17_Witness ==
  /\ req.kind = "chat" /\ req.pc = "done" /\ req.status = 200
  /\ privacy_filter_enabled
  /\ req.sent = << [role |-> RoleUser, content |-> sanitize_content(TextEmail)] >>
  /\ req.privacy_input = req.sent
  /\ sanitize_content(TextEmail) # TextEmail
  /\ ChatBodies[req.input].data = PyDict([message |-> PyStr(TextEmail)])


(***************************************************************************)
(* Claims about the request validator (SpecValidator)                      *)
(***************************************************************************)
Validated == fn.op = "validate_chat_request" /\ fn.done

ArgModel == Get(fn.arg, "model", PyStr(<< >>))

ArgMessages == Get(fn.arg, "messages", PyList(<< >>))

\* rule (1) and rule (2) fail for the request
Rule1Fails == ArgModel.t # "str" \/ ~ModelNameMatches(ArgModel.v)

Rule2Fails == ArgMessages.t # "list" \/ Len(ArgMessages.v) > max_messages

\* rules (3), (4), (5) fail for message m
RuleFails(k, m) ==
  CASE k = 3 -> m.t # "dict"
    [] k = 4 -> /\ m.t = "dict"
                /\ LET role == Get(m, "role", None)
                   IN ~(role.t = "str" /\ role.v \in allowed_roles)
    [] k = 5 -> /\ m.t = "dict"
                /\ LET content == Get(m, "content", PyStr(<< >>))
                   IN ~HasLen(content) \/ PyLen(content) > max_message_length

\* the error of rule k (for rules 3 to 5: on message m)
RuleError(k, m) ==
  CASE k = 1 -> IF ArgModel.t # "str"
                  THEN Raise("TypeError", "expected string or bytes-like object")
                  ELSE Raise("ValueError", "Invalid model name format")
    [] k = 2 -> Raise("ValueError", "Invalid messages format or too many messages")
    [] k = 3 -> Raise("ValueError", "Message must be a dictionary")
    [] k = 4 -> IF Get(m, "role", None).t \in { "list", "dict" }
                  THEN Raise("TypeError", "unhashable type")
                  ELSE Raise("ValueError", "Invalid role")
    [] k = 5 -> IF ~HasLen(Get(m, "content", PyStr(<< >>)))
                  THEN Raise("TypeError", "object has no len()")
                  ELSE Raise("ValueError", "Message too long")

MessageRules == { 3, 4, 5 }

\* the messages that violate rule k / some rule
Violating(k) == { i \in DOMAIN ArgMessages.v : RuleFails(k, ArgMessages.v[i]) }

ViolatingAny == UNION { Violating(k) : k \in MessageRules }

Least(S) == CHOOSE x \in S : \A y \in S : x <= y

\* C13 (as stated): the error raised is the one of the lowest-numbered violated
\* rule, wherever in the message list the violations occur.
C13_LowestRuleWins ==
  Validated
    => IF Rule1Fails THEN fn.out = RuleError(1, None)
       ELSE IF Rule2Fails THEN fn.out = RuleError(2, None)
       ELSE ViolatingAny # {}
              => LET k == Least({ r \in MessageRules : Violating(r) # {} })
                 IN fn.out = RuleError(k, ArgMessages.v[Least(Violating(k))])

\* C13 (as the code has it): rule (1), then rule (2), then the messages in
\* list order, rules (3), (4), (5) on each before the next message is looked
\* at: the error is the one of the first violating message, and within that
\* message the one of its lowest-numbered violated rule.
C13_FirstViolatingMessageWins ==
  Validated
    => IF Rule1Fails THEN fn.out = RuleError(1, None)
       ELSE IF Rule2Fails THEN fn.out = RuleError(2, None)
       ELSE ViolatingAny # {}
              => LET i == Least(ViolatingAny)
                     k == Least({ r \in MessageRules : RuleFails(r, ArgMessages.v[i]) })
                 IN fn.out = RuleError(k, ArgMessages.v[i])

\* the first message is too long and the second is not a record: the error is
\* the one of rule (5)
C13_Witness ==
  /\ Validated
  /\ ~Rule1Fails /\ ~Rule2Fails
  /\ ArgMessages.v = << UserMessage(PyStr(TextTooLong)), PyStr(TextHi) >>
  /\ fn.out = Raise("ValueError", "Message too long")

\* the conditions the data model puts on a request
ModelIsIdentifier(m) ==
  m.t = "str" /\ m.v # << >> /\ \A i \in DOMAIN m.v : m.v[i] \in ModelNameChars

MessageIsValid(m) ==
  /\ m.t = "dict"
  /\ Get(m, "role", None).t = "str" /\ Get(m, "role", None).v \in allowed_roles
  /\ Get(m, "content", PyStr(<< >>)).t = "str"
  /\ Len(Get(m, "content", PyStr(<< >>)).v) <= max_message_length

RequestIsValid(r) ==
  /\ ModelIsIdentifier(Get(r, "model", PyStr(<< >>)))
  /\ LET ms == Get(r, "messages", PyList(<< >>))
     IN ms.t = "list" /\ Len(ms.v) <= 100 /\ \A i \in DOMAIN ms.v : MessageIsValid(ms.v[i])
  /\ "max_tokens" \in DOMAIN r.v
       => LET x == r.v["max_tokens"]
          IN x.t \in { "int", "bool" }
             /\ (IF x.t = "bool" THEN (IF x.v THEN 1 ELSE 0) ELSE x.v) \in 1..4096
  /\ "temperature" \in DOMAIN r.v
       => LET x == r.v["temperature"]
          IN x.t \in { "int", "float", "bool" }
             /\ (CASE x.t = "bool" -> (IF x.v THEN 10 ELSE 0)
                   [] x.t = "int" -> 10 * x.v
                   [] OTHER -> x.v) \in 0..20

\* C14: validate_chat_request succeeds exactly when the model is a non-empty
\* identifier over [A-Za-z0-9_-], messages is a list of at most 100 records
\* with an allowed role and a content within the maximum length, max_tokens
\* (if present) is an integer in [1,4096] and temperature (if present) a number
\* in [0,2].
C14_SucceedsExactlyWhenValid ==
  Validated => (fn.out.ok <=> RequestIsValid(fn.arg))

\* the examples of C14: the boundary values are accepted; 101 messages, role
\* "hacker" and max_tokens 5000 are each refused with their own error
C14_BoundaryValues ==
  (Validated /\ ArgModel = PyStr(GaiaModel))
    => LET only(ms, mt, temp) ==
             fn.arg = MakeDict([model |-> PyStr(GaiaModel), messages |-> ms,
                                max_tokens |-> mt, temperature |-> temp])
           hi == PyList(<< UserMessage(PyStr(TextHi)) >>)
       IN /\ only(PyList([i \in 1..100 |-> UserMessage(PyStr(TextHi))]), Absent, Absent)
               => fn.out.ok /\ Len(fn.out.value.messages) = 100
          /\ (\E mt \in { PyInt(1), PyInt(4096) } : only(hi, mt, Absent)) => fn.out.ok
          /\ (\E t \in { PyInt(0), PyInt(2), PyFloat(0), PyFloat(20) } : only(hi, Absent, t))
               => fn.out.ok
          /\ only(PyList(<< PyDict([role |-> PyStr(RoleAssistant),
                                    content |-> PyStr(TextMaxLength)]) >>), Absent, Absent)
               => fn.out.ok
          /\ only(PyList([i \in 1..101 |-> UserMessage(PyStr(TextHi))]), Absent, Absent)
               => fn.out = Raise("ValueError", "Invalid messages format or too many messages")
          /\ only(PyList(<< PyDict([role |-> PyStr(RoleHacker), content |-> PyStr(TextHi)]) >>),
                  Absent, Absent)
               => fn.out = Raise("ValueError", "Invalid role")
          /\ only(hi, PyInt(5000), Absent)
               => fn.out = Raise("ValueError", "Invalid max_tokens value")


(***************************************************************************)
(* Claims about the content sanitizer (SpecSanitizer)                      *)
(***************************************************************************)
Sanitized == fn.op = "sanitize_content" /\ fn.done

\* lit occurs in s, in any casing
ContainsAnyCase(s, lit) == \E i \in 1..Len(s) : LitAt(s, i, lit, TRUE)

\* C18: for every input text (any casing, any script body, nested and
\* overlapping occurrences included) the output of sanitize_content contains no
\* "<script" and no "javascript:".
C18_NoScriptNoJavascript ==
  Sanitized => /\ ~ContainsAnyCase(fn.out, ScriptOpen)
               /\ ~ContainsAnyCase(fn.out, JavascriptLit)

\* "javascript:" nested in "javascript:": removing the inner one leaves the
\* outer one, whose colon the character filter then takes away
C18_Witness ==
  /\ Sanitized
  /\ fn.arg = << "j","a","v","a","j","a","v","a","s","c","r","i","p","t",":","s","c","r","i","p","t",":" >>
  /\ ContainsAnyCase(RemoveJavascript(RemoveScripts(fn.arg, 1), 1), JavascriptLit)
  /\ fn.out = << "j","a","v","a","s","c","r","i","p","t" >>

\* C19: "Click javascript:alert('xss') here" is sanitized to exactly
\* "Click alert here": the protocol literal goes together with the call's
\* parentheses, quotes and quoted argument.
C19_ClickAlertHere ==
  (Sanitized /\ fn.arg = TextClickJavascript)
    => fn.out = << "C","l","i","c","k"," ","a","l","e","r","t"," ","h","e","r","e" >>

\* what sanitize_content returns for the texts of the two unit tests
C19_UnitTestTexts ==
  /\ (Sanitized /\ fn.arg = TextClickJavascript)
       => fn.out = << "C","l","i","c","k"," ","a","l","e","r","t","(","'","x","s","s","'",")"," ","h","e","r","e" >>
  /\ (Sanitized /\ fn.arg = TextHelloScript)
       => fn.out = << "H","e","l","l","o"," "," ","w","o","r","l","d" >>


(***************************************************************************)
(* Claims about the sensitive-data filter (SpecFilter)                     *)
(***************************************************************************)
Detected == fn.op = "detect_sensitive_data" /\ fn.done

\* the sixteen-digit sequences among the pieces, in order
CardsOf(pieces) == SelectSeq(pieces, LAMBDA p : p \in CardTexts)

\* the piece is not directly preceded or followed by a letter, a digit or "_"
StandsAlone(pieces, k) ==
  /\ k > 1 => pieces[k - 1][Len(pieces[k - 1])] \notin WordChars
  /\ k < Len(pieces) => pieces[k + 1][1] \notin WordChars

AllCardsStandAlone(pieces) ==
  \A k \in DOMAIN pieces : pieces[k] \in CardTexts => StandsAlone(pieces, k)

\* one credit_card finding per sequence, in order, and no other finding
OneFindingPerCard(pieces, findings) ==
  findings = [k \in DOMAIN CardsOf(pieces) |-> << "credit_card", CardsOf(pieces)[k] >>]

\* C20 (as stated): for a text containing 16-digit sequences grouped in fours
\* with optional "-" or space separators, detect reports exactly one
\* credit_card finding per sequence, and no ssn, phone or api_key finding for
\* the same digits.
C20_OneFindingPerSequence ==
  Detected
    => \A ps \in FilterPieces : Concat(ps) = fn.arg => OneFindingPerCard(ps, fn.out)

\* C20 (as the code has it): the same, for sequences that stand alone, that
\* is, are not directly preceded or followed by a letter, a digit or an
\* underscore.
C20_OneFindingPerSequenceStandingAlone ==
  Detected
    => \A ps \in FilterPieces :
         (Concat(ps) = fn.arg /\ AllCardsStandAlone(ps)) => OneFindingPerCard(ps, fn.out)

\* two sequences, one with dashes and one without separators, with a space
\* between them: two credit_card findings and nothing else
C20_Witness ==
  /\ Detected
  /\ fn.arg = << "4","5","3","2","-","1","2","3","4","-","5","6","7","8","-","9","0","1","2"," ","4","5","3","2","1","2","3","4","5","6","7","8","9","0","1","2" >>
  /\ fn.out = << << "credit_card", << "4","5","3","2","-","1","2","3","4","-","5","6","7","8","-","9","0","1","2" >> >>,
                 << "credit_card", << "4","5","3","2","1","2","3","4","5","6","7","8","9","0","1","2" >> >> >>

Redacted == fn.op = "redact_sensitive_data" /\ fn.done

\* how many times the literal occurs in the text
Occurrences(lit, s) == Cardinality({ i \in 1..Len(s) : LitAt(s, i, lit, FALSE) })

\* how many matches the k-th pattern replaces in its pass
InsertedBy(text, k) == Len(FindAll(PatternOrder[k], RedactedAfter(text, k - 1), 1))

\* the place of the last pattern whose expression has no catch-all part
LastBoundedPattern == CHOOSE k \in DOMAIN PatternOrder : PatternOrder[k] = "api_key"

C21_WitnessBothStay ==
  /\ Redacted
  /\ fn.arg = SsnText \o << " " >> \o EmailText
  /\ fn.out = Placeholder("ssn") \o << " " >> \o Placeholder("email")

\* C22: redact is idempotent: for every text t, redact(redact(t)) = redact(t).
C22_RedactIdempotent ==
  Redacted => redact_sensitive_data(fn.out) = fn.out

\* what the two passes give for "123-45-6789password: x": the number touches
\* the word "password", so the ssn pattern finds no word boundary after it in
\* the first pass, and finds one in the second, next to the "[" of the
\* placeholder
C22_SecondPassFindsTheNumber ==
  (Redacted /\ fn.arg = SsnText \o PasswordIntro \o << "x" >>)
    => /\ fn.out = SsnText \o Placeholder("password")
       /\ redact_sensitive_data(fn.out) = Placeholder("ssn") \o Placeholder("password")


(***************************************************************************)
(* Further claims about the rate limiter called directly (SpecMonitor)     *)
(***************************************************************************)
\* the step is a call check_rate_limit(ip, ...) that has returned ret
CheckRateLimitReturned(ip, ret) ==
  /\ clock' = clock
  /\ call' = [op |-> "check_rate_limit", ip |-> ip, ret |-> ret]

\* C23: when check_rate_limit rejects a request, the rejected request's
\* timestamp is not recorded: afterwards the client's timestamps are exactly
\* the prior ones still inside the window, and the only other change of
\* state is the insertion of the client into the block set.
C23_RejectedRequestNotRecorded ==
  [][\A ip \in ClientIds :
       CheckRateLimitReturned(ip, FALSE)
         => /\ \E window \in Windows :
                 rate_limits' = [rate_limits EXCEPT ![ip] = Prune(@, clock, window)]
            /\ blocked_ips' = blocked_ips \cup { ip }
            /\ UNCHANGED envVars]_vars

\* a rejected call has left the two requests of the current second and put
\* the client into the block set
C23_Witness ==
  /\ call = [op |-> "check_rate_limit", ip |-> Watched, ret |-> FALSE]
  /\ clock = MaxTime
  /\ rate_limits[Watched] = << MaxTime - 1, MaxTime - 1 >>
  /\ Watched \in blocked_ips

\* C27: check_rate_limit never consults the block set: what it returns and
\* records depends on the client's timestamps, the limit and the window only,
\* so for a blocked client whose timestamps have aged out it returns true and
\* records the request, while is_blocked stays true.
C27_BlockSetNotConsulted ==
  [][\A ip \in ClientIds : \A ret \in BOOLEAN :
       CheckRateLimitReturned(ip, ret)
         => /\ \E limit \in Limits, window \in Windows :
                 LET pruned == Prune(rate_limits[ip], clock, window)
                 IN /\ ret = (Len(pruned) < EffectiveLimit(limit, rate_limit_per_hour))
                    /\ ret => rate_limits'[ip] = Append(pruned, clock)
            /\ is_blocked(blocked_ips, ip) => is_blocked(blocked_ips', ip)]_vars

\* a client that a run of calls has got blocked, after its timestamps have
\* aged out: the call has returned true and recorded the request, its only
\* one, and the client is still blocked
C27_Witness ==
  /\ tripped
  /\ is_blocked(blocked_ips, Watched)
  /\ call = [op |-> "check_rate_limit", ip |-> Watched, ret |-> TRUE]
  /\ rate_limits[Watched] = << clock >>

(***************************************************************************)
(* Claims about runs of calls with one limit and one window (SpecLimiter)  *)
(***************************************************************************)
\* the recorded requests of the client that are less than window old
InWindow(ip) == Prune(rate_limits[ip], clock, run.window)

\* C24: for every value of the limit argument (100 included) and every
\* window, check_rate_limit returns false exactly when the number of recorded
\* timestamps t with now - t < window is at least the limit argument, and
\* otherwise appends now and returns true.
C24_RejectsExactlyAtLimitArgument ==
  [][\A ip \in ClientIds : \A ret \in BOOLEAN :
       CheckRateLimitReturned(ip, ret)
         => /\ ret = (Len(InWindow(ip)) < run.limit)
            /\ ret => rate_limits'[ip] = Append(InWindow(ip), clock)]_vars

\* what the code does: the same with the limit it works with, which is
\* RATE_LIMIT_PER_HOUR when the argument is 100
C24_RejectsExactlyAtEffectiveLimit ==
  [][\A ip \in ClientIds : \A ret \in BOOLEAN :
       CheckRateLimitReturned(ip, ret)
         => /\ ret = (Len(InWindow(ip)) < EffectiveLimit(run.limit, rate_limit_per_hour))
            /\ ret => rate_limits'[ip] = Append(InWindow(ip), clock)]_vars

IsNonDecreasing(times) == \A i, j \in DOMAIN times : i <= j => times[i] <= times[j]

\* the three properties of the lists, with at most `most` entries
ListsWithin(most) ==
  /\ \A c \in ClientIds :
       /\ Len(rate_limits'[c]) <= most
       /\ IsNonDecreasing(rate_limits'[c])
  /\ \A ip \in ClientIds : \A ret \in BOOLEAN :
       CheckRateLimitReturned(ip, ret)
         => \A i \in DOMAIN rate_limits'[ip] : clock - rate_limits'[ip][i] < run.window

\* C26: after any sequence of non-interleaved check_rate_limit calls made
\* with the same limit L >= 1 and window W, every client's list has at most L
\* entries, is in non-decreasing order, and immediately after a call for that
\* client contains only timestamps less than W old.
C26_AtMostLimitEntriesInOrderInWindow ==
  [][ListsWithin(run.limit)]_vars

\* what the code does: at most as many entries as the limit it works with
C26_AtMostEffectiveLimitEntries ==
  [][ListsWithin(EffectiveLimit(run.limit, rate_limit_per_hour))]_vars


(***************************************************************************)
(* Further claims about the HTTP application (Spec)                        *)
(***************************************************************************)
\* the step is the gate deciding on a request that has just arrived
GateStep == req.pc \in { "idle", "done" } /\ req' # req

\* nothing of a handler has run for the request
HandlerNotReached(r) ==
  /\ r.pc = "done"
  /\ r.validate_calls = 0 /\ r.upstream_calls = 0
  /\ r.privacy_input = << >> /\ r.sent = << >>
  /\ r.health = "" /\ r.content = << >> /\ r.events = << >>

\* the client's recorded requests that the gate's call counts
CountedByGate(ip) == Prune(rate_limits[ip], clock, DefaultWindow)

\* C25: every inbound request passes the gate before its handler.  A blocked
\* client is answered 403 without its timestamps being pruned or appended;
\* otherwise check_rate_limit runs and a false result is answered 429; a
\* request the gate rejects never reaches validation, the privacy check or
\* the upstream provider.  So the request that trips the limit gets 429 and
\* every later request of that client gets 403.
C25_GateBeforeHandler ==
  [][/\ GateStep
          => IF req'.ip \in blocked_ips
               THEN /\ req'.status = 403 /\ req'.error = "Access denied"
                    /\ HandlerNotReached(req')
                    /\ UNCHANGED monitorVars
               ELSE IF Len(CountedByGate(req'.ip)) >= rate_limit_per_hour
                 THEN /\ req'.status = 429 /\ req'.error = "Rate limit exceeded"
                      /\ HandlerNotReached(req')
                      /\ rate_limits'[req'.ip] = CountedByGate(req'.ip)
                      /\ req'.ip \in blocked_ips'
                 ELSE req'.pc = "handler" /\ req'.gate = "admitted"
     /\ (~GateStep /\ req' # req) => req.pc \notin { "idle", "done" } /\ req.gate = "admitted"
     /\ req'.ip \in blocked_ips' => req'.status \in { 403, 429 } /\ HandlerNotReached(req')]_vars

\* a blocked client has been answered 403 after its window went by, and its
\* old timestamps are still in the list
C25_Witness ==
  /\ req.status = 403 /\ req.pc = "done"
  /\ req.ip \in blocked_ips
  /\ rate_limits[req.ip] # << >>
  /\ CountedByGate(req.ip) = << >>

HasFinding(kind, text) ==
  \E i \in DOMAIN detect_sensitive_data(text) : detect_sensitive_data(text)[i][1] = kind

\* the contents of the messages as the client sent them
RawContents(request) ==
  LET ms == Get(request, "messages", PyList(<< >>)).v
  IN [i \in DOMAIN ms |-> Get(ms[i], "content", PyStr(<< >>)).v]

\* there is an email address in the messages and nothing of another kind
OnlyEmailIn(contents) ==
  /\ \E i \in DOMAIN contents : HasFinding("email", contents[i])
  /\ \A i \in DOMAIN contents : \A k \in DOMAIN detect_sensitive_data(contents[i]) :
       detect_sensitive_data(contents[i])[k][1] = "email"

C29_AdmittedRequestTakesSlot ==
  [][/\ (GateStep /\ req'.pc = "handler")
          => rate_limits'[req'.ip] = Append(CountedByGate(req'.ip), clock)
     /\ ~GateStep => rate_limits' = rate_limits]_vars

\* no provider is configured, so no request has reached one; the client's
\* health check took the only slot, its next one tripped the limit, and the
\* client is blocked
C29_Witness ==
  /\ ~gaia_client
  /\ req.kind = "health" /\ req.status = 429
  /\ req.ip \in blocked_ips
  /\ Len(rate_limits[req.ip]) = rate_limit_per_hour

\* C30: the client identifier is the X-Real-IP header when present, else the
\* remote address; requests from one remote address with different X-Real-IP
\* values are throttled and blocked independently: the decision depends on a
\* value the caller chooses, and a blocked caller is admitted again by
\* changing it.
C30_ClientIdIsCallerChosen ==
  [][GateStep
       => /\ req'.ip = (IF req'.x_real_ip # "" THEN req'.x_real_ip ELSE req'.remote_addr)
          /\ \A c \in ClientIds \ { req'.ip } :
               /\ rate_limits'[c] = rate_limits[c]
               /\ c \in blocked_ips' <=> c \in blocked_ips
          /\ req'.pc = "handler"
               <=> /\ req'.ip \notin blocked_ips
                   /\ Len(CountedByGate(req'.ip)) < rate_limit_per_hour]_vars

\* the remote address is blocked, and the same caller has been admitted
\* with an X-Real-IP header
C30_Witness ==
  /\ req.remote_addr \in blocked_ips
  /\ req.x_real_ip # ""
  /\ req.pc = "handler"

====
